---- MODULE Spec2Model ----
(***************************************************************************)
(* Session inventory of any-agent: the Codex scanner (codex.ts), the       *)
(* Claude scanner (claudecode.ts), fork detection, branch ordering,        *)
(* pricing, the merge layer getAllSessions (index.tsx) and resumeSession    *)
(* (resume.ts).                                                            *)
(*                                                                         *)
(* Timestamps are Date.getTime() values, modelled as small integers.       *)
(* Costs are modelled in integer price units (the code uses IEEE doubles;  *)
(* rounding of floating-point sums is outside this model).                 *)
(* The branch glyphs of codex.ts are written in ASCII:                     *)
(*   ' ' -> " "   (neutral)          U+2534 -> "base"                      *)
(*   U+250C -> "branch-start"        U+251C -> "branch-mid"                *)
(***************************************************************************)
EXTENDS Integers, Sequences, FiniteSets, TLC

VARIABLES
    filter,          \* argument of getAllSessions / the entry point in use
    pricing,         \* the pricing collaborator: model name -> outcome of getModelPricing
    codexFiles,      \* rollout files in the order getSessions visits them
    codexPc,         \* position inside getSessions
    codexSessions,   \* the `sessions` / `ordered` array of getSessions
    codexResult,     \* what safeLoad(getCodexSessions) resolved with
    codexCalls,      \* number of calls of the Codex loader
    codexRead,       \* number of rollout files getSessions has called readHead on
    claudeMessages,  \* `messages` map after parseTranscriptFile, in insertion order
    claudePc,        \* position inside getClaudeSessions
    claudeLeaves,    \* orderedLeaves still to be processed (indices into claudeMessages)
    claudeSessions,  \* the `sessions` array of getClaudeSessions
    claudeKeys,      \* globalMessageKeys
    claudeResult,    \* what safeLoad(getClaudeSessions) resolved with
    claudeCalls,     \* number of calls of the Claude loader
    result,          \* the value getAllSessions resolved with
    options,         \* scanCap and limit of GetSessionsOptions
    codexLookups,    \* model names getSessions passed to getModelPricing, in call order
    claudeLookups,   \* model names getClaudeSessions passed to getModelPricing
    invocation,      \* 1 during the first call of the entry point, 2 during the second
    firstResult,     \* what the first call resolved with
    rollout,         \* the lines of the rollout file readHead is reading
    reader,          \* readHead's loop: lines consumed so far and its local variables
    aggregate,       \* usage messages of one Claude session and what they aggregate to
    child,           \* the ChildProcess spawned by resumeSession
    listeners,       \* the handlers resumeSession has on `process`, per signal
    resume,          \* resumeSession: its options, listenerMap and returned promise
    walk,            \* buildTranscript's loop: current, visited and transcript
    picker,          \* SessionPicker: its props and its state hooks
    cli              \* main of index.tsx from the picker's exit on

vars == <<filter, pricing, codexFiles, codexPc, codexSessions, codexResult, codexCalls, codexRead,
          claudeMessages, claudePc, claudeLeaves, claudeSessions, claudeKeys,
          claudeResult, claudeCalls, result, options, codexLookups, claudeLookups,
          invocation, firstResult, rollout, reader, aggregate, child, listeners, resume,
          walk, picker, cli>>

codexVars == <<codexFiles, codexPc, codexSessions, codexResult, codexCalls, codexRead,
               codexLookups>>
claudeVars == <<claudeMessages, claudePc, claudeLeaves, claudeSessions, claudeKeys,
                claudeResult, claudeCalls, claudeLookups>>
usageVars == <<rollout, reader, aggregate>>
resumeVars == <<child, listeners, resume>>
rescanVars == <<invocation, firstResult>>
frontVars == <<walk, picker, cli>>
\* what the scanners and the merge layer never touch
otherVars == <<options, rescanVars, usageVars, resumeVars>>

\* null / undefined of a string-valued field
NULL == "null"

MarkerNone == " "
MarkerBase == "base"
MarkerBranchStart == "branch-start"
MarkerBranchMid == "branch-mid"

Range(s) == {s[i] : i \in 1..Len(s)}

\* TLC evaluates a function constructor afresh at every application of it; Array
\* and Table build the sequence / the function once.  They do not change the value.
Array(s) == s \o <<>>
Table(f) == f @@ <<>>

Max(a, b) == IF a >= b THEN a ELSE b
Min(a, b) == IF a <= b THEN a ELSE b

(***************************************************************************)
(* Array.prototype.sort with a comparator (a, b) => key(b) - key(a)        *)
(* (descending) or key(a) - key(b) (ascending); keys[i] is the key of      *)
(* s[i].  The sort is stable: elements with equal keys keep their order.   *)
(***************************************************************************)
SortDescBy(s, keys) ==
    LET n == Len(s)
        rank == Array([i \in 1..n |-> 1 + Cardinality({j \in 1..n :
                        \/ keys[j] > keys[i]
                        \/ (keys[j] = keys[i] /\ j < i)})])
    IN  Array([r \in 1..n |-> s[CHOOSE i \in 1..n : rank[i] = r]])

SortAscBy(s, keys) ==
    LET n == Len(s)
        rank == Array([i \in 1..n |-> 1 + Cardinality({j \in 1..n :
                        \/ keys[j] < keys[i]
                        \/ (keys[j] = keys[i] /\ j < i)})])
    IN  Array([r \in 1..n |-> s[CHOOSE i \in 1..n : rank[i] = r]])

\* x.timestamp.getTime() for each element of an array of sessions or messages
TimesOf(s) == Array([k \in 1..Len(s) |-> s[k].timestamp])

Indices(s) == Array([i \in 1..Len(s) |-> i])

(***************************************************************************)
(* Token usage (codex.ts TokenUsage / RawUsage).                           *)
(***************************************************************************)
EmptyUsage ==
    [inputTokens |-> 0, cachedInputTokens |-> 0, outputTokens |-> 0,
     reasoningOutputTokens |-> 0, totalTokens |-> 0]

blendedTokenTotal(usage) ==
    LET nonCached == Max(0, usage.inputTokens - usage.cachedInputTokens)
    IN  nonCached + usage.outputTokens + usage.reasoningOutputTokens

hasAnyTokenUsage(usage) ==
    \/ usage.inputTokens > 0
    \/ usage.cachedInputTokens > 0
    \/ usage.outputTokens > 0
    \/ usage.reasoningOutputTokens > 0

(***************************************************************************)
(* Fork detection (codex.ts markForkedSessions / setBranchMarkers).        *)
(* The code mutates the session objects in place; here a group is a        *)
(* sequence of indices into `sessions` and the updated array is returned.  *)
(***************************************************************************)
\* the timestamps of the sessions a list of indices names
TimestampsOf(sessions, idxs) ==
    Array([k \in 1..Len(idxs) |-> sessions[idxs[k]].timestamp])

\* setBranchMarkers with `index === 0 ? ... : ...` dropped: every non-base member
\* gets the continuation glyph
setBranchMarkersNoStart(sessions, group) ==
    IF Len(group) = 0 THEN sessions
    ELSE
      LET sorted == SortDescBy(group, TimestampsOf(sessions, group))
          base == sorted[Len(sorted)]
      IN  Array([i \in 1..Len(sessions) |->
             IF i = base THEN [sessions[i] EXCEPT !.branchMarker = MarkerBase]
             ELSE IF i \in Range(sorted)
             THEN [sessions[i] EXCEPT !.branchMarker = MarkerBranchMid]
             ELSE sessions[i]])

setBranchMarkers(sessions, group) ==
    IF Len(group) = 0 THEN sessions
    ELSE
      LET sorted == SortDescBy(group, TimestampsOf(sessions, group))
          base == sorted[Len(sorted)]
          popped == SubSeq(sorted, 1, Len(sorted) - 1)
          rest == SortDescBy(popped, TimestampsOf(sessions, popped))
      IN  Array([i \in 1..Len(sessions) |->
             IF \E k \in 1..Len(rest) : rest[k] = i
             THEN [sessions[i] EXCEPT !.branchMarker =
                      IF rest[1] = i THEN MarkerBranchStart ELSE MarkerBranchMid]
             ELSE IF i = base
             THEN [sessions[i] EXCEPT !.branchMarker = MarkerBase]
             ELSE sessions[i]])

\* one iteration of `for (const bucket of signatureMap.values())`
MarkBucket(sessions, bucket) ==
    IF Len(bucket) <= 1 THEN sessions
    ELSE
      LET sortedByTimestamp == SortAscBy(bucket, TimestampsOf(sessions, bucket))
          baseSession == sortedByTimestamp[1]
          flagged == Array([i \in 1..Len(sessions) |->
                        IF /\ i \in Range(Tail(sortedByTimestamp))
                           /\ i # baseSession
                        THEN [sessions[i] EXCEPT !.isFork = TRUE]
                        ELSE sessions[i]])
      IN  setBranchMarkers(flagged, sortedByTimestamp)

\* `if (!signature) continue`: null and the empty string are skipped
HasSignature(session) == session.forkSignature # NULL /\ session.forkSignature # ""

\* signatureMap.get(signature): the sessions with that signature, in array order
BucketOf(sessions, signature) ==
    SelectSeq(Indices(sessions), LAMBDA i : sessions[i].forkSignature = signature)

\* The buckets are disjoint and each bucket's pass writes its own members only,
\* so the result at index i is the result of the pass over i's bucket.
markForkedSessions(sessions) ==
    LET signatures == {sessions[i].forkSignature :
                          i \in {j \in 1..Len(sessions) : HasSignature(sessions[j])}}
        pass == Table([signature \in signatures |->
                    MarkBucket(sessions, BucketOf(sessions, signature))])
    IN  Array([i \in 1..Len(sessions) |->
            IF ~HasSignature(sessions[i]) THEN sessions[i]
            ELSE pass[sessions[i].forkSignature][i]])

(***************************************************************************)
(* Branch ordering (codex.ts orderSessionsByBranch).                       *)
(***************************************************************************)
\* session.branchMarker.trim().length > 0
HasBranchMarker(session) == session.branchMarker # MarkerNone

\* session.forkSignature ?? session.id
GroupKey(session) ==
    IF session.forkSignature # NULL THEN session.forkSignature ELSE session.id

RECURSIVE MaxOver(_, _)
MaxOver(sessions, idxs) ==
    IF Len(idxs) = 1 THEN sessions[idxs[1]].timestamp
    ELSE Max(MaxOver(sessions, Tail(idxs)), sessions[idxs[1]].timestamp)

\* the values of groupsMap in insertion order, each entry with its members sorted
GroupEntries(sessions) ==
    LET grouped == SelectSeq(Indices(sessions), LAMBDA i : HasBranchMarker(sessions[i]))
        firsts == SelectSeq(grouped, LAMBDA i :
                     \A j \in 1..(i - 1) :
                        ~(HasBranchMarker(sessions[j])
                          /\ GroupKey(sessions[j]) = GroupKey(sessions[i])))
        Members(f) == SelectSeq(grouped, LAMBDA i :
                         GroupKey(sessions[i]) = GroupKey(sessions[f]))
    IN  Array([k \in 1..Len(firsts) |->
            [sessions |-> SortDescBy(Members(firsts[k]),
                                     TimestampsOf(sessions, Members(firsts[k]))),
             maxTimestamp |-> MaxOver(sessions, Members(firsts[k]))]])

\* the keys of groupEntries.sort((a, b) => b.maxTimestamp - a.maxTimestamp)
EntryMax(entries) == Array([k \in 1..Len(entries) |-> entries[k].maxTimestamp])

\* the while loop with `nextGroupTs > nextSingleTs`: a tie emits the single first
RECURSIVE MergeBranchesStrict(_, _, _, _, _)
MergeBranchesStrict(sessions, groupEntries, singles, groupIndex, singleIndex) ==
    IF groupIndex > Len(groupEntries) /\ singleIndex > Len(singles) THEN <<>>
    ELSE
      LET groupNext ==
            /\ groupIndex <= Len(groupEntries)
            /\ \/ singleIndex > Len(singles)
               \/ groupEntries[groupIndex].maxTimestamp
                    > sessions[singles[singleIndex]].timestamp
      IN  IF groupNext
          THEN groupEntries[groupIndex].sessions \o
               MergeBranchesStrict(sessions, groupEntries, singles,
                                   groupIndex + 1, singleIndex)
          ELSE <<singles[singleIndex]>> \o
               MergeBranchesStrict(sessions, groupEntries, singles,
                                   groupIndex, singleIndex + 1)

\* the while loop of orderSessionsByBranch; -Infinity stands for an exhausted list
RECURSIVE MergeBranches(_, _, _, _, _)
MergeBranches(sessions, groupEntries, singles, groupIndex, singleIndex) ==
    IF groupIndex > Len(groupEntries) /\ singleIndex > Len(singles) THEN <<>>
    ELSE
      LET groupNext ==
            /\ groupIndex <= Len(groupEntries)
            /\ \/ singleIndex > Len(singles)
               \/ groupEntries[groupIndex].maxTimestamp
                    >= sessions[singles[singleIndex]].timestamp
      IN  IF groupNext
          THEN groupEntries[groupIndex].sessions \o
               MergeBranches(sessions, groupEntries, singles, groupIndex + 1, singleIndex)
          ELSE <<singles[singleIndex]>> \o
               MergeBranches(sessions, groupEntries, singles, groupIndex, singleIndex + 1)

\* the order as a sequence of indices into `sessions`
BranchOrder(sessions) ==
    LET groupEntries == SortDescBy(GroupEntries(sessions),
                                   EntryMax(GroupEntries(sessions)))
        unmarked == SelectSeq(Indices(sessions), LAMBDA i : ~HasBranchMarker(sessions[i]))
        singles == SortDescBy(unmarked, TimestampsOf(sessions, unmarked))
    IN  MergeBranches(sessions, groupEntries, singles, 1, 1)

\* ordering by recency alone, without any grouping
orderSessionsByTimestamp(sessions) ==
    SortDescBy(sessions, TimesOf(sessions))

orderSessionsByBranch(sessions) ==
    LET order == BranchOrder(sessions)
    IN  Array([k \in 1..Len(order) |-> sessions[order[k]]])

(***************************************************************************)
(* Raw usage payloads (codex.ts normalizeRawUsage .. convertToDelta).      *)
(* A JSON field is <<n>> when it holds the finite number n and <<>> when   *)
(* it is absent (undefined or null).                                       *)
(***************************************************************************)
ensureNumber(value) == IF Len(value) = 1 THEN value[1] ELSE 0

\* a ?? b
Coalesce(a, b) == IF Len(a) = 1 THEN a ELSE b

ZeroRaw ==
    [input_tokens |-> 0, cached_input_tokens |-> 0, output_tokens |-> 0,
     reasoning_output_tokens |-> 0, total_tokens |-> 0]

\* the caller has checked that the payload is an object (else null is returned)
normalizeRawUsage(record) ==
    LET input == ensureNumber(record.input_tokens)
        cached == ensureNumber(Coalesce(record.cached_input_tokens,
                                        record.cache_read_input_tokens))
        output == ensureNumber(record.output_tokens)
        reasoning == ensureNumber(record.reasoning_output_tokens)
        total == ensureNumber(record.total_tokens)
    IN  [input_tokens |-> input,
         cached_input_tokens |-> cached,
         output_tokens |-> output,
         reasoning_output_tokens |-> reasoning,
         total_tokens |-> IF total > 0 THEN total ELSE input + output]

\* subtractRawUsage without Math.max(..., 0)
subtractRawUsageUnclamped(current, hasPrevious, previous) ==
    IF ~hasPrevious THEN current
    ELSE
      [input_tokens |-> current.input_tokens - previous.input_tokens,
       cached_input_tokens |-> current.cached_input_tokens - previous.cached_input_tokens,
       output_tokens |-> current.output_tokens - previous.output_tokens,
       reasoning_output_tokens |->
           current.reasoning_output_tokens - previous.reasoning_output_tokens,
       total_tokens |-> current.total_tokens - previous.total_tokens]

\* previous = null is hasPrevious = FALSE
subtractRawUsage(current, hasPrevious, previous) ==
    IF ~hasPrevious THEN current
    ELSE
      [input_tokens |-> Max(current.input_tokens - previous.input_tokens, 0),
       cached_input_tokens |->
           Max(current.cached_input_tokens - previous.cached_input_tokens, 0),
       output_tokens |-> Max(current.output_tokens - previous.output_tokens, 0),
       reasoning_output_tokens |->
           Max(current.reasoning_output_tokens - previous.reasoning_output_tokens, 0),
       total_tokens |-> Max(current.total_tokens - previous.total_tokens, 0)]

convertToDelta(raw) ==
    LET cached == Min(raw.cached_input_tokens, raw.input_tokens)
        total == IF raw.total_tokens > 0 THEN raw.total_tokens
                 ELSE raw.input_tokens + raw.output_tokens
    IN  [input_tokens |-> raw.input_tokens,
         cached_input_tokens |-> cached,
         output_tokens |-> raw.output_tokens,
         reasoning_output_tokens |-> raw.reasoning_output_tokens,
         total_tokens |-> total]

addUsage(target, delta) ==
    [inputTokens |-> target.inputTokens + delta.input_tokens,
     cachedInputTokens |-> target.cachedInputTokens + delta.cached_input_tokens,
     outputTokens |-> target.outputTokens + delta.output_tokens,
     reasoningOutputTokens |-> target.reasoningOutputTokens + delta.reasoning_output_tokens,
     totalTokens |-> target.totalTokens + delta.total_tokens]

\* Map<string, TokenUsage> as a sequence of entries in insertion order
MapHas(map, key) == \E k \in 1..Len(map) : map[k].model = key
MapGet(map, key) == map[CHOOSE k \in 1..Len(map) : map[k].model = key].usage
MapSet(map, key, usage) ==
    IF MapHas(map, key)
    THEN Array([k \in 1..Len(map) |->
             IF map[k].model = key THEN [model |-> key, usage |-> usage] ELSE map[k]])
    ELSE Append(map, [model |-> key, usage |-> usage])

(***************************************************************************)
(* Lines of a rollout file (codex.ts readHead).  A line is a record        *)
(*   kind: "malformed" (JSON.parse throws), "session_meta", "user_message",*)
(*         "turn_context", "token_count" or "other"                        *)
(*   message: payload.message of a user_message event                      *)
(*   model: the model named on the record (NULL when none)                 *)
(*   hasLast/last, hasTotal/total: info.last_token_usage,                  *)
(*         info.total_token_usage of a token_count event                   *)
(***************************************************************************)
LEGACY_FALLBACK_MODEL == "gpt-5-codex"

\* String.prototype.trim on the message texts of the model
Trim(text) ==
    CASE text = " fix " -> "fix"
      [] text = "  " -> ""
      [] text = " /w " -> "/w"
      [] OTHER -> text

\* asNonEmptyString
asNonEmptyString(value) ==
    IF value = NULL THEN NULL
    ELSE IF Trim(value) = "" THEN NULL ELSE Trim(value)

NoRawField == <<>>
NoRawPayload ==
    [input_tokens |-> NoRawField, cached_input_tokens |-> NoRawField,
     cache_read_input_tokens |-> NoRawField, output_tokens |-> NoRawField,
     reasoning_output_tokens |-> NoRawField, total_tokens |-> NoRawField]

BlankLine ==
    [kind |-> "other", message |-> NULL, model |-> NULL,
     hasLast |-> FALSE, last |-> NoRawPayload, hasTotal |-> FALSE, total |-> NoRawPayload]

ReadHeadStart ==
    [head |-> <<>>, hasMeta |-> FALSE, firstUserMessage |-> NULL,
     totals |-> EmptyUsage, perModel |-> <<>>,
     hasPreviousTotals |-> FALSE, previousTotals |-> ZeroRaw,
     currentModel |-> NULL, messageCount |-> 0]

\* extractModel(payload) ?? LEGACY_FALLBACK_MODEL: currentModel left out
modelNameWithoutContext(recordModel, currentModel) ==
    IF asNonEmptyString(recordModel) # NULL THEN asNonEmptyString(recordModel)
    ELSE LEGACY_FALLBACK_MODEL

\* const modelName = extractModel(payload) ?? currentModel ?? LEGACY_FALLBACK_MODEL
modelNameOf(recordModel, currentModel) ==
    IF asNonEmptyString(recordModel) # NULL THEN asNonEmptyString(recordModel)
    ELSE IF currentModel # NULL THEN currentModel
    ELSE LEGACY_FALLBACK_MODEL

\* the token_count part of one loop iteration
ReadTokenCount(st, line) ==
    LET lastUsage == normalizeRawUsage(line.last)
        totalUsage == normalizeRawUsage(line.total)
        hasRaw == line.hasLast \/ line.hasTotal
        raw == IF line.hasLast THEN lastUsage
               ELSE subtractRawUsage(totalUsage, st.hasPreviousTotals, st.previousTotals)
        st1 == IF line.hasTotal
               THEN [st EXCEPT !.hasPreviousTotals = TRUE, !.previousTotals = totalUsage]
               ELSE st
        delta == convertToDelta(raw)
        modelName == modelNameOf(line.model, st.currentModel)
        usage == IF MapHas(st1.perModel, modelName)
                 THEN MapGet(st1.perModel, modelName) ELSE EmptyUsage
    IN  IF ~hasRaw THEN st1
        ELSE IF /\ delta.input_tokens = 0
                /\ delta.cached_input_tokens = 0
                /\ delta.output_tokens = 0
                /\ delta.reasoning_output_tokens = 0
        THEN st1
        ELSE [st1 EXCEPT !.totals = addUsage(st1.totals, delta),
                         !.perModel = MapSet(st1.perModel, modelName,
                                             addUsage(usage, delta))]

\* one iteration of `for await (const line of rl)`
ReadLine(st, line, limit) ==
    IF line.kind = "malformed" THEN st
    ELSE
      LET st1 == IF Len(st.head) < limit
                 THEN [st EXCEPT !.head = Append(st.head, line)] ELSE st
          st2 == IF ~st1.hasMeta /\ line.kind = "session_meta"
                 THEN [st1 EXCEPT !.hasMeta = TRUE] ELSE st1
          st3 == IF /\ st2.firstUserMessage = NULL
                    /\ line.kind = "user_message"
                    /\ line.message # NULL
                    /\ Trim(line.message) # ""
                 THEN [st2 EXCEPT !.firstUserMessage = line.message] ELSE st2
          \* isMessageEvent: event_msg whose payload type contains "message"
          st4 == IF line.kind = "user_message"
                 THEN [st3 EXCEPT !.messageCount = st3.messageCount + 1] ELSE st3
      IN  IF line.kind = "turn_context"
          THEN IF asNonEmptyString(line.model) # NULL
               THEN [st4 EXCEPT !.currentModel = asNonEmptyString(line.model)]
               ELSE st4
          ELSE IF line.kind # "token_count" THEN st4
          ELSE ReadTokenCount(st4, line)

RECURSIVE ReadLines(_, _, _)
ReadLines(st, lines, limit) ==
    IF Len(lines) = 0 THEN st
    \* the loop variables after this iteration are values, bound once, before the
    \* next iteration runs
    ELSE CHOOSE r \in {ReadLines(next, rest, limit) :
                          next \in {ReadLine(st, lines[1], limit)},
                          rest \in {Tail(lines)}} : TRUE

readHead(lines, limit) == ReadLines(ReadHeadStart, lines, limit)

computeForkSignature(head) ==
    LET hits == SelectSeq(head, LAMBDA entry :
                    /\ entry.kind = "user_message"
                    /\ entry.message # NULL
                    /\ Trim(entry.message) # "")
    IN  IF Len(hits) = 0 THEN NULL ELSE Trim(hits[1].message)

\* the primary-model loop of getSessions / selectPrimaryModel of claudecode.ts
RECURSIVE PrimaryFrom(_, _, _, _)
PrimaryFrom(modelUsage, k, primaryModel, primaryTokens) ==
    IF k > Len(modelUsage) THEN primaryModel
    ELSE
      LET usage == modelUsage[k].usage
          tokens == IF usage.totalTokens > 0 THEN usage.totalTokens
                    ELSE usage.inputTokens + usage.outputTokens
      IN  IF tokens > primaryTokens
          THEN PrimaryFrom(modelUsage, k + 1, modelUsage[k].model, tokens)
          ELSE PrimaryFrom(modelUsage, k + 1, primaryModel, primaryTokens)

selectPrimaryModel(modelUsage) == PrimaryFrom(modelUsage, 1, NULL, -1)

(***************************************************************************)
(* Pricing collaborator (pricing.ts is not part of the sources at hand).   *)
(* pricing[model] is the outcome of getModelPricing(model):                *)
(*   status "ok" with per-token rates, "none" (resolves with null) or      *)
(*   "throws".  Both scanners cache the outcome per model and treat        *)
(*   "throws" like "none".                                                 *)
(***************************************************************************)
calculateCostFromPricing(tokens, rates) ==
      tokens.input_tokens * rates.input
    + tokens.output_tokens * rates.output
    + tokens.cache_creation_input_tokens * rates.cacheWrite
    + tokens.cache_read_input_tokens * rates.cacheRead

\* pricingCache.get(model) after the lookup: TRUE when a pricing record is cached
HasPricing(prices, model) == prices[model].status = "ok"

(***************************************************************************)
(* getSessions of codex.ts.                                                *)
(* A rollout file is [id, timestamp, lines]: id and timestamp come from    *)
(* the file name (ROLLOUT_FILE_PATTERN guarantees both).                   *)
(***************************************************************************)
DEFAULT_HEAD_RECORD_LIMIT == 10
DEFAULT_SCAN_CAP == 500

\* the body of the innermost loop for one file: <<>> when the file is skipped,
\* else the one session pushed
CodexSessionOf(file, headRecordLimit) ==
    LET r == readHead(file.lines, headRecordLimit)
    IN  IF ~r.hasMeta \/ r.firstUserMessage = NULL THEN <<>>
        ELSE <<[id |-> file.id,
                source |-> "codex",
                timestamp |-> file.timestamp,
                tokenUsage |-> r.totals,
                blendedTokens |-> blendedTokenTotal(r.totals),
                isFork |-> FALSE,
                branchMarker |-> MarkerNone,
                forkSignature |-> computeForkSignature(r.head),
                model |-> selectPrimaryModel(r.perModel),
                costUsd |-> 0,
                modelUsage |-> r.perModel,
                usageKeys |-> <<>>,
                usageDetails |-> <<>>]>>

\* The nested directory loops over the files in visiting order.  `read` counts the
\* readHead calls (scannedFiles is read + 1 when the cap is tested); limit = 0
\* stands for an absent limit, which `limit &&` treats like 0.
\* The loop without the test of `limit`:
RECURSIVE ScanLoopNoLimit(_, _, _, _, _, _)
ScanLoopNoLimit(files, sessions, read, scanCap, limit, headRecordLimit) ==
    IF Len(files) = 0 THEN [sessions |-> sessions, read |-> read]
    ELSE IF read + 1 > scanCap THEN [sessions |-> sessions, read |-> read]
    ELSE ScanLoopNoLimit(Tail(files),
                         sessions \o CodexSessionOf(files[1], headRecordLimit),
                         read + 1, scanCap, limit, headRecordLimit)

\* the loop with `break outer` where a file without metadata or first user
\* message has `continue`
RECURSIVE ScanLoopStopsAtIncomplete(_, _, _, _, _, _)
ScanLoopStopsAtIncomplete(files, sessions, read, scanCap, limit, headRecordLimit) ==
    IF Len(files) = 0 THEN [sessions |-> sessions, read |-> read]
    ELSE IF read + 1 > scanCap THEN [sessions |-> sessions, read |-> read]
    ELSE
      LET found == CodexSessionOf(files[1], headRecordLimit)
          pushed == sessions \o found
      IN  IF Len(found) = 0 \/ (limit # 0 /\ Len(pushed) >= limit)
          THEN [sessions |-> pushed, read |-> read + 1]
          ELSE ScanLoopStopsAtIncomplete(Tail(files), pushed, read + 1, scanCap, limit,
                                         headRecordLimit)

RECURSIVE ScanLoop(_, _, _, _, _, _)
ScanLoop(files, sessions, read, scanCap, limit, headRecordLimit) ==
    IF Len(files) = 0 THEN [sessions |-> sessions, read |-> read]
    ELSE IF read + 1 > scanCap THEN [sessions |-> sessions, read |-> read]
    ELSE
      LET found == CodexSessionOf(files[1], headRecordLimit)
          pushed == sessions \o found
      IN  IF Len(found) = 1 /\ limit # 0 /\ Len(pushed) >= limit
          THEN [sessions |-> pushed, read |-> read + 1]
          ELSE ScanLoop(Tail(files), pushed, read + 1, scanCap, limit, headRecordLimit)

\* orderSessionsByBranch(sessions) without the filter
OrderedUnfiltered(sessions) == orderSessionsByBranch(sessions)

\* orderSessionsByBranch(sessions).filter(...)
VisibleOrdered(sessions) ==
    SelectSeq(orderSessionsByBranch(sessions), LAMBDA s : hasAnyTokenUsage(s.tokenUsage))

\* the inner loop over session.modelUsage of the pricing pass
RECURSIVE CodexSessionCost(_, _, _)
CodexSessionCost(modelUsage, k, prices) ==
    IF k > Len(modelUsage) THEN 0
    ELSE
      LET usage == modelUsage[k].usage
          nonCachedInput == Max(0, usage.inputTokens - usage.cachedInputTokens)
          cost == IF ~HasPricing(prices, modelUsage[k].model) THEN 0
                  ELSE calculateCostFromPricing(
                          [input_tokens |-> nonCachedInput,
                           output_tokens |-> usage.outputTokens,
                           cache_creation_input_tokens |-> 0,
                           cache_read_input_tokens |-> usage.cachedInputTokens],
                          prices[modelUsage[k].model])
      IN  cost + CodexSessionCost(modelUsage, k + 1, prices)

\* one iteration of `for (const session of ordered)`
CodexPriced(session, prices) ==
    IF session.model = NULL THEN [session EXCEPT !.costUsd = 0]
    ELSE [session EXCEPT !.costUsd = CodexSessionCost(session.modelUsage, 1, prices)]

\* ordered.reduce((acc, s) => acc + s.blendedTokens, 0)
RECURSIVE SumBlended(_)
SumBlended(sessions) ==
    IF Len(sessions) = 0 THEN 0
    ELSE sessions[1].blendedTokens + SumBlended(Tail(sessions))

\* totalCostUsd of getSessions: `totalCostUsd += sessionCost` runs for the sessions
\* that have a primary model; the others `continue` before it
RECURSIVE CodexTotalCost(_, _)
CodexTotalCost(ordered, prices) ==
    IF Len(ordered) = 0 THEN 0
    ELSE (IF ordered[1].model = NULL THEN 0
          ELSE CodexSessionCost(ordered[1].modelUsage, 1, prices))
         + CodexTotalCost(Tail(ordered), prices)

\* the pricing pass and the return statement of getSessions
CodexTotals(ordered, prices) ==
    [sessions |-> Array([k \in 1..Len(ordered) |-> CodexPriced(ordered[k], prices)]),
     totalBlendedTokens |-> SumBlended(ordered),
     totalCostUsd |-> CodexTotalCost(ordered, prices)]

(***************************************************************************)
(* getClaudeSessions of claudecode.ts.                                     *)
(* A message (ClaudeMessageRecord) is a record                             *)
(*   uuid, parentUuid (NULL when null or absent), type, isSidechain,       *)
(*   timestamp, messageId (message.id), requestId (raw.requestId),         *)
(*   model (message.model), usage (message.usage as extractUsage reads     *)
(*   it: each field <<n>> or <<>>), text (the text summarizeMessage        *)
(*   finds in message.content, NULL when it finds none).                   *)
(* `messages` is the Map in insertion order, one entry per uuid.           *)
(***************************************************************************)
NoClaudeUsage ==
    [input_tokens |-> <<>>, cache_creation_input_tokens |-> <<>>,
     cache_read_input_tokens |-> <<>>, output_tokens |-> <<>>,
     reasoning_output_tokens |-> <<>>]

\* extractUsage returns null unless one field is a number
HasUsage(message) ==
    \/ Len(message.usage.input_tokens) = 1
    \/ Len(message.usage.cache_creation_input_tokens) = 1
    \/ Len(message.usage.cache_read_input_tokens) = 1
    \/ Len(message.usage.output_tokens) = 1
    \/ Len(message.usage.reasoning_output_tokens) = 1

MessagesHas(messages, uuid) == \E k \in 1..Len(messages) : messages[k].uuid = uuid
MessagesGet(messages, uuid) == messages[CHOOSE k \in 1..Len(messages) : messages[k].uuid = uuid]

\* parentLookup.has(uuid): some parsed record names uuid as its parent
ParentLookupHas(messages, uuid) ==
    \E k \in 1..Len(messages) :
        messages[k].parentUuid # NULL /\ messages[k].parentUuid # ""
        /\ messages[k].parentUuid = uuid

identifyLeafMessages(messages) ==
    SelectSeq(messages, LAMBDA m : ~ParentLookupHas(messages, m.uuid))

\* the while loop of buildTranscript; `current` undefined is hasCurrent = FALSE
RECURSIVE TranscriptWalk(_, _, _, _, _)
TranscriptWalk(messages, hasCurrent, current, visited, transcript) ==
    IF ~hasCurrent THEN transcript
    ELSE IF current.uuid \in visited THEN transcript
    ELSE
      LET grown == <<current>> \o transcript
          parentUuid == current.parentUuid
      IN  IF parentUuid = NULL \/ parentUuid = "" THEN grown
          ELSE IF MessagesHas(messages, parentUuid)
          THEN TranscriptWalk(messages, TRUE, MessagesGet(messages, parentUuid),
                              visited \cup {current.uuid}, grown)
          ELSE TranscriptWalk(messages, FALSE, current,
                              visited \cup {current.uuid}, grown)

buildTranscript(leaf, messages) == TranscriptWalk(messages, TRUE, leaf, {}, <<>>)

\* the template string `${messageId}:${requestId}` is the pair <<messageId, requestId>>
getAssistantUsageKey(message) ==
    LET messageId == asNonEmptyString(message.messageId)
        requestId == asNonEmptyString(message.requestId)
    IN  IF messageId # NULL /\ requestId # NULL THEN <<messageId, requestId>>
        ELSE IF messageId # NULL THEN <<messageId>>
        ELSE IF requestId # NULL THEN <<requestId>>
        ELSE <<message.uuid>>

\* Map.set(key, message) per qualifying message: a key keeps the position of its
\* first insertion and the value of its last
collectAssistantUsageMessages(transcript) ==
    LET Qualifies(k) == transcript[k].type = "assistant" /\ HasUsage(transcript[k])
        firsts == SelectSeq(Indices(transcript), LAMBDA k :
                     /\ Qualifies(k)
                     /\ \A j \in 1..(k - 1) :
                           ~(Qualifies(j) /\ getAssistantUsageKey(transcript[j])
                                               = getAssistantUsageKey(transcript[k])))
        LastOf(k) == CHOOSE j \in 1..Len(transcript) :
                        /\ Qualifies(j)
                        /\ getAssistantUsageKey(transcript[j])
                             = getAssistantUsageKey(transcript[k])
                        /\ \A i \in (j + 1)..Len(transcript) :
                              ~(Qualifies(i) /\ getAssistantUsageKey(transcript[i])
                                                  = getAssistantUsageKey(transcript[k]))
    IN  Array([n \in 1..Len(firsts) |-> transcript[LastOf(firsts[n])]])

\* the contribution of one assistant message to a TokenUsage
ClaudeDelta(stats) ==
    LET input == ensureNumber(stats.input_tokens)
        cacheCreation == ensureNumber(stats.cache_creation_input_tokens)
        cacheRead == ensureNumber(stats.cache_read_input_tokens)
        output == ensureNumber(stats.output_tokens)
        reasoning == ensureNumber(stats.reasoning_output_tokens)
    IN  [input_tokens |-> input + cacheCreation + cacheRead,
         cached_input_tokens |-> cacheRead,
         output_tokens |-> output,
         reasoning_output_tokens |-> reasoning,
         total_tokens |-> input + cacheCreation + cacheRead + output + reasoning]

RECURSIVE aggregateUsage(_)
aggregateUsage(assistantMessages) ==
    IF Len(assistantMessages) = 0 THEN EmptyUsage
    ELSE
      LET n == Len(assistantMessages)
          before == aggregateUsage(SubSeq(assistantMessages, 1, n - 1))
      IN  IF ~HasUsage(assistantMessages[n]) THEN before
          ELSE addUsage(before, ClaudeDelta(assistantMessages[n].usage))

RECURSIVE aggregateUsageByModel(_)
aggregateUsageByModel(assistantMessages) ==
    IF Len(assistantMessages) = 0 THEN <<>>
    ELSE
      LET n == Len(assistantMessages)
          message == assistantMessages[n]
          perModel == aggregateUsageByModel(SubSeq(assistantMessages, 1, n - 1))
          record == IF MapHas(perModel, message.model)
                    THEN MapGet(perModel, message.model) ELSE EmptyUsage
      IN  IF message.model = NULL \/ message.model = "" \/ ~HasUsage(message)
          THEN perModel
          ELSE MapSet(perModel, message.model, addUsage(record, ClaudeDelta(message.usage)))

\* transcript.find(message => message.type === 'user')
findFirstUserMessage(transcript) ==
    SelectSeq(transcript, LAMBDA m : m.type = "user")

\* createSessionSummary; usageKeys is the key list of usageMessagesWithKeys and
\* usageDetails the entry of sessionUsageDetails for this session
createSessionSummary(leaf, transcript, usageMessages) ==
    LET tokenUsage == aggregateUsage(usageMessages)
        modelUsage == aggregateUsageByModel(usageMessages)
        firstUserMessage == findFirstUserMessage(transcript)
    IN  [id |-> leaf.uuid,
         source |-> "claude-code",
         timestamp |-> leaf.timestamp,
         tokenUsage |-> tokenUsage,
         blendedTokens |-> blendedTokenTotal(tokenUsage),
         isFork |-> FALSE,
         branchMarker |-> MarkerNone,
         forkSignature |-> IF Len(firstUserMessage) = 0 THEN NULL
                           ELSE firstUserMessage[1].text,
         model |-> selectPrimaryModel(modelUsage),
         costUsd |-> 0,
         modelUsage |-> modelUsage,
         usageKeys |-> Array([k \in 1..Len(usageMessages) |->
                           getAssistantUsageKey(usageMessages[k])]),
         usageDetails |-> Array([k \in 1..Len(usageMessages) |->
                              [model |-> usageMessages[k].model,
                               usage |-> usageMessages[k].usage]])]

\* the loop over assistantMessages without the globalMessageKeys.has(key) test
AllUsageMessages(transcript, globalMessageKeys) ==
    collectAssistantUsageMessages(transcript)

\* the usage messages of one leaf that globalMessageKeys does not hold yet
FreshUsageMessages(transcript, globalMessageKeys) ==
    SelectSeq(collectAssistantUsageMessages(transcript),
              LAMBDA m : getAssistantUsageKey(m) \notin globalMessageKeys)

\* whether the body of `for (const leaf of orderedLeaves)` pushes a session
LeafAdmitted(leaf, messages, globalMessageKeys) ==
    LET transcript == buildTranscript(leaf, messages)
    IN  /\ Len(transcript) > 0
        /\ \E k \in 1..Len(transcript) : ~transcript[k].isSidechain
        /\ Len(FreshUsageMessages(transcript, globalMessageKeys)) > 0

LeafSession(leaf, messages, globalMessageKeys) ==
    LET transcript == buildTranscript(leaf, messages)
    IN  createSessionSummary(leaf, transcript,
                             FreshUsageMessages(transcript, globalMessageKeys))

\* the loop over usageDetails of the pricing pass
RECURSIVE ClaudeSessionCost(_, _, _)
ClaudeSessionCost(usageDetails, k, prices) ==
    IF k > Len(usageDetails) THEN 0
    ELSE
      LET detail == usageDetails[k]
          cost == IF detail.model = NULL \/ detail.model = "" THEN 0
                  ELSE IF ~HasPricing(prices, detail.model) THEN 0
                  ELSE calculateCostFromPricing(
                          [input_tokens |-> ensureNumber(detail.usage.input_tokens),
                           output_tokens |-> ensureNumber(detail.usage.output_tokens),
                           cache_creation_input_tokens |->
                               ensureNumber(detail.usage.cache_creation_input_tokens),
                           cache_read_input_tokens |->
                               ensureNumber(detail.usage.cache_read_input_tokens)],
                          prices[detail.model])
      IN  cost + ClaudeSessionCost(usageDetails, k + 1, prices)

ClaudePriced(session, prices) ==
    [session EXCEPT !.costUsd = ClaudeSessionCost(session.usageDetails, 1, prices)]

RECURSIVE SumCost(_)
SumCost(sessions) ==
    IF Len(sessions) = 0 THEN 0 ELSE sessions[1].costUsd + SumCost(Tail(sessions))

\* the pricing pass and the return statement of getClaudeSessions
ClaudeTotals(visibleSessions, prices) ==
    LET priced == Array([k \in 1..Len(visibleSessions) |->
                      ClaudePriced(visibleSessions[k], prices)])
    IN  [sessions |-> priced,
         totalBlendedTokens |-> SumBlended(visibleSessions),
         totalCostUsd |-> SumCost(priced)]

(***************************************************************************)
(* Calls of getModelPricing during the pricing pass of either scanner.     *)
(* `lookups` lists the model names passed so far; the outcome of every     *)
(* call, a thrown one included, is stored in pricingCache, so the keys of  *)
(* pricingCache are the members of `lookups`.                              *)
(***************************************************************************)
\* if (!pricingCache.has(model)) { try { getModelPricing(model) ... } catch ... }
LookupIfAbsent(lookups, model) ==
    IF model \in Range(lookups) THEN lookups ELSE Append(lookups, model)

\* the inner loop `for (const [modelName, usage] of session.modelUsage)` of getSessions
RECURSIVE CodexSessionLookups(_, _, _)
CodexSessionLookups(lookups, modelUsage, k) ==
    IF k > Len(modelUsage) THEN lookups
    ELSE CodexSessionLookups(LookupIfAbsent(lookups, modelUsage[k].model), modelUsage, k + 1)

\* `for (const session of ordered)` of getSessions
RECURSIVE CodexPricingLookups(_, _)
CodexPricingLookups(ordered, lookups) ==
    IF Len(ordered) = 0 THEN lookups
    ELSE IF ordered[1].model = NULL THEN CodexPricingLookups(Tail(ordered), lookups)
    ELSE CodexPricingLookups(
             Tail(ordered),
             CodexSessionLookups(LookupIfAbsent(lookups, ordered[1].model),
                                 ordered[1].modelUsage, 1))

\* the inner loop `for (const detail of usageDetails)` of getClaudeSessions
RECURSIVE ClaudeSessionLookups(_, _, _)
ClaudeSessionLookups(lookups, usageDetails, k) ==
    IF k > Len(usageDetails) THEN lookups
    ELSE IF usageDetails[k].model = NULL \/ usageDetails[k].model = ""
    THEN ClaudeSessionLookups(lookups, usageDetails, k + 1)
    ELSE ClaudeSessionLookups(LookupIfAbsent(lookups, usageDetails[k].model),
                              usageDetails, k + 1)

\* `for (const session of visibleSessions)` of getClaudeSessions
RECURSIVE ClaudePricingLookups(_, _)
ClaudePricingLookups(visibleSessions, lookups) ==
    IF Len(visibleSessions) = 0 THEN lookups
    ELSE ClaudePricingLookups(
             Tail(visibleSessions),
             ClaudeSessionLookups(lookups, visibleSessions[1].usageDetails, 1))

(***************************************************************************)
(* The merge layer (index.tsx): safeLoad and getAllSessions.               *)
(* A promise outcome is [status |-> "rejected"] or a record with           *)
(* status "resolved" and the fields of SessionsWithTotals.                 *)
(***************************************************************************)
Rejected == [status |-> "rejected"]
Pending == [status |-> "pending"]

Resolved(value) ==
    [status |-> "resolved", sessions |-> value.sessions,
     totalBlendedTokens |-> value.totalBlendedTokens,
     totalCostUsd |-> value.totalCostUsd]

EMPTY_RESULT == [sessions |-> <<>>, totalBlendedTokens |-> 0, totalCostUsd |-> 0]

\* `return await loader()` without the try / catch
safeLoadRethrow(outcome) == outcome

\* try { return await loader() } catch { return EMPTY_RESULT() }
safeLoad(outcome) ==
    IF outcome.status = "rejected" THEN Resolved(EMPTY_RESULT) ELSE outcome

\* the statements after Promise.all with the totals of the Codex loader alone
MergeSourcesCodexTotals(codex, claude) ==
    LET mergedSessions == codex.sessions \o claude.sessions
    IN  [sessions |-> orderSessionsByBranch(mergedSessions),
         totalBlendedTokens |-> codex.totalBlendedTokens,
         totalCostUsd |-> codex.totalCostUsd]

\* the statements after Promise.all
MergeSources(codex, claude) ==
    LET mergedSessions == codex.sessions \o claude.sessions
    IN  [sessions |-> orderSessionsByBranch(mergedSessions),
         totalBlendedTokens |-> codex.totalBlendedTokens + claude.totalBlendedTokens,
         totalCostUsd |-> codex.totalCostUsd + claude.totalCostUsd]

\* `const globalMessageKeys = new Set<string>()` kept from the previous call
KeptMessageKeys(previous) == previous

\* `const globalMessageKeys = new Set<string>()`: whatever an earlier call left
\* behind, the set of this call starts empty
NewMessageKeys(previous) == {}

\* which loaders getAllSessions(filter) calls
CallsCodex(f) == f \in {"codex", "all"}
CallsClaude(f) == f \in {"claudecode", "all"}

\* the value getAllSessions settles with, given what the safeLoad calls settled with;
\* a rejection of either passes through `await` / Promise.all
getAllSessions(f, codex, claude) ==
    IF f = "codex" THEN codex
    ELSE IF f = "claudecode" THEN claude
    ELSE IF codex.status = "rejected" \/ claude.status = "rejected" THEN Rejected
    ELSE Resolved(MergeSources(codex, claude))

(***************************************************************************)
(* Actions.                                                                *)
(***************************************************************************)
\* getSessions up to the end of the directory loops
CodexScan ==
    /\ CallsCodex(filter)
    /\ codexPc = "idle"
    /\ codexCalls' = codexCalls + 1
    /\ LET scan == ScanLoop(codexFiles, <<>>, 0, options.scanCap, options.limit,
                            DEFAULT_HEAD_RECORD_LIMIT)
       IN  /\ codexSessions' = scan.sessions
           /\ codexRead' = scan.read
    /\ codexPc' = "mark"
    /\ UNCHANGED <<frontVars, filter, pricing, otherVars, codexFiles, codexLookups, codexResult, claudeVars, result>>

\* fs.stat, readdir or the read stream fails: getSessions rejects
CodexThrow ==
    /\ CallsCodex(filter)
    /\ codexPc = "idle"
    /\ codexCalls' = codexCalls + 1
    /\ codexResult' = safeLoad(Rejected)
    /\ codexPc' = "failed"
    /\ UNCHANGED <<frontVars, filter, pricing, otherVars, codexFiles, codexRead, codexLookups, codexSessions, claudeVars, result>>

CodexMark ==
    /\ codexPc = "mark"
    /\ codexSessions' = markForkedSessions(codexSessions)
    /\ codexPc' = "order"
    /\ UNCHANGED <<frontVars, filter, pricing, otherVars, codexFiles, codexRead, codexLookups, codexResult, codexCalls, claudeVars, result>>

CodexOrder ==
    /\ codexPc = "order"
    /\ codexSessions' = VisibleOrdered(codexSessions)
    /\ codexPc' = "price"
    /\ UNCHANGED <<frontVars, filter, pricing, otherVars, codexFiles, codexRead, codexLookups, codexResult, codexCalls, claudeVars, result>>

CodexPrice ==
    /\ codexPc = "price"
    /\ codexResult' = safeLoad(Resolved(CodexTotals(codexSessions, pricing)))
    /\ codexSessions' = codexResult'.sessions
    /\ codexLookups' = CodexPricingLookups(codexSessions, <<>>)
    /\ codexPc' = "done"
    /\ UNCHANGED <<frontVars, filter, pricing, otherVars, codexFiles, codexRead, codexCalls, claudeVars, result>>

CodexSettled == codexPc \in {"done", "failed"}
ClaudeSettled == claudePc \in {"done", "failed"}

\* The two loaders share no state, so every interleaving of their steps gives the
\* same outcomes; the Claude loader's steps are taken after the Codex loader's.
ClaudeTurn == CallsClaude(filter) /\ (CallsCodex(filter) => CodexSettled)

\* getClaudeSessions up to the sort of the leaves
ClaudeParse ==
    /\ ClaudeTurn
    /\ claudePc = "idle"
    /\ claudeCalls' = claudeCalls + 1
    /\ claudeLeaves' = SortAscBy(identifyLeafMessages(claudeMessages),
                                 TimesOf(identifyLeafMessages(claudeMessages)))
    /\ claudeSessions' = <<>>
    /\ claudeKeys' = NewMessageKeys(claudeKeys)
    /\ claudePc' = "leaves"
    /\ UNCHANGED <<frontVars, filter, pricing, otherVars, codexVars, claudeMessages, claudeLookups, claudeResult, result>>

\* readdir / stat of a projects directory fails: getClaudeSessions rejects
ClaudeThrow ==
    /\ ClaudeTurn
    /\ claudePc = "idle"
    /\ claudeCalls' = claudeCalls + 1
    /\ claudeResult' = safeLoad(Rejected)
    /\ claudePc' = "failed"
    /\ UNCHANGED <<frontVars, filter, pricing, otherVars, codexVars, claudeMessages, claudeLookups, claudeLeaves,
                   claudeSessions, claudeKeys, result>>

\* one iteration of `for (const leaf of orderedLeaves)`
ClaudeLeaf ==
    /\ claudePc = "leaves"
    /\ Len(claudeLeaves) > 0
    /\ LET leaf == claudeLeaves[1]
       IN  IF LeafAdmitted(leaf, claudeMessages, claudeKeys)
           THEN LET session == LeafSession(leaf, claudeMessages, claudeKeys)
                IN  /\ claudeSessions' = Append(claudeSessions, session)
                    /\ claudeKeys' = claudeKeys \cup Range(session.usageKeys)
           ELSE UNCHANGED <<frontVars, claudeSessions, claudeKeys>>
    /\ claudeLeaves' = Tail(claudeLeaves)
    /\ UNCHANGED <<frontVars, filter, pricing, otherVars, codexVars, claudeMessages, claudeLookups, claudePc, claudeResult,
                   claudeCalls, result>>

\* sessions.sort(...) (no limit is given) and markForkedSessions(sessions)
ClaudeMark ==
    /\ claudePc = "leaves"
    /\ Len(claudeLeaves) = 0
    /\ claudeSessions' = markForkedSessions(
                             SortDescBy(claudeSessions, TimesOf(claudeSessions)))
    /\ claudePc' = "order"
    /\ UNCHANGED <<frontVars, filter, pricing, otherVars, codexVars, claudeMessages, claudeLookups, claudeLeaves, claudeKeys,
                   claudeResult, claudeCalls, result>>

ClaudeOrder ==
    /\ claudePc = "order"
    /\ claudeSessions' = VisibleOrdered(claudeSessions)
    /\ claudePc' = "price"
    /\ UNCHANGED <<frontVars, filter, pricing, otherVars, codexVars, claudeMessages, claudeLookups, claudeLeaves, claudeKeys,
                   claudeResult, claudeCalls, result>>

ClaudePrice ==
    /\ claudePc = "price"
    /\ claudeResult' = safeLoad(Resolved(ClaudeTotals(claudeSessions, pricing)))
    /\ claudeSessions' = claudeResult'.sessions
    /\ claudeLookups' = ClaudePricingLookups(claudeSessions, <<>>)
    /\ claudePc' = "done"
    /\ UNCHANGED <<frontVars, filter, pricing, otherVars, codexVars, claudeMessages, claudeLeaves, claudeKeys,
                   claudeCalls, result>>

\* getAllSessions settles once the loaders it called have settled
Return ==
    /\ result.status = "pending"
    /\ CallsCodex(filter) => CodexSettled
    /\ CallsClaude(filter) => ClaudeSettled
    /\ result' = getAllSessions(filter, codexResult, claudeResult)
    /\ UNCHANGED <<frontVars, filter, pricing, otherVars, codexVars, claudeVars>>

\* The first call has resolved and the caller calls the entry point again.  The
\* locals of the first call are garbage from here on: every one of them is
\* initialised again by the step of the second call that declares it.
Rescan ==
    /\ invocation = 1
    /\ result.status = "resolved"
    /\ firstResult' = result
    /\ invocation' = 2
    /\ codexPc' = "idle"
    /\ claudePc' = "idle"
    /\ codexResult' = Pending
    /\ claudeResult' = Pending
    /\ result' = Pending
    /\ UNCHANGED <<frontVars, filter, pricing, options, usageVars, resumeVars, codexFiles,
                   codexSessions, codexCalls, codexRead, codexLookups, claudeMessages,
                   claudeLeaves, claudeSessions, claudeKeys, claudeCalls, claudeLookups>>

(***************************************************************************)
(* Inputs.                                                                 *)
(***************************************************************************)
MaxCodexFiles == 4
MaxMessages == 3
MaxMergeFiles == 2
MaxMergeMessages == 2

Num(n) == <<n>>

CodexRaw(input, cached, output, reasoning) ==
    [input_tokens |-> Num(input), cached_input_tokens |-> Num(cached),
     cache_read_input_tokens |-> <<>>, output_tokens |-> Num(output),
     reasoning_output_tokens |-> Num(reasoning), total_tokens |-> <<>>]

MetaLine == [BlankLine EXCEPT !.kind = "session_meta"]
UserLine(text) == [BlankLine EXCEPT !.kind = "user_message", !.message = text]
LastLine(raw) == [BlankLine EXCEPT !.kind = "token_count", !.hasLast = TRUE, !.last = raw]
OtherLines(n) == Array([k \in 1..n |-> BlankLine])

\* a rollout file: session metadata, `gap` other records, the first user message
\* and one token_count event
RolloutLines(text, gap, raw) ==
    <<MetaLine>> \o OtherLines(gap) \o <<UserLine(text), LastLine(raw)>>

CodexId(i) == <<"c1", "c2", "c3", "c4", "c5", "c6">>[i]
ClaudeUuid(i) == <<"u1", "u2", "u3", "u4", "u5">>[i]

Models == {LEGACY_FALLBACK_MODEL, "sonnet"}

OkPricing == [status |-> "ok", input |-> 3, output |-> 5, cacheWrite |-> 2, cacheRead |-> 1]
NoPricing == [status |-> "none", input |-> 0, output |-> 0, cacheWrite |-> 0, cacheRead |-> 0]
ThrowsPricing == [NoPricing EXCEPT !.status = "throws"]

AllPriced == [m \in Models |-> OkPricing]

DefaultOptions == [scanCap |-> DEFAULT_SCAN_CAP, limit |-> 0]

\* the entry point has been called once and has not settled
FirstInvocation == invocation = 1 /\ firstResult = Pending

\* readHead and aggregateUsage are not being stepped through
NoUsageRun ==
    /\ rollout = <<>>
    /\ reader = [pos |-> 0, st |-> ReadHeadStart, primary |-> <<>>]
    /\ aggregate = [messages |-> <<>>, done |-> FALSE,
                    tokenUsage |-> EmptyUsage, modelUsage |-> <<>>, model |-> NULL]

\* buildTranscript is not running
NoWalk == walk = [pc |-> "idle"]

\* main has not rendered the picker
NoPicker == picker = [pc |-> "idle"] /\ cli = [pc |-> "idle"]

\* resumeSession has not been called
NoResume ==
    /\ child = [state |-> "none", killed |-> FALSE, kills |-> <<>>]
    /\ listeners = <<>>
    /\ resume = [pc |-> "idle"]

IdleCodex ==
    /\ codexPc = "idle"
    /\ codexSessions = <<>>
    /\ codexResult = Pending
    /\ codexCalls = 0
    /\ codexRead = 0
    /\ codexLookups = <<>>

IdleClaude ==
    /\ claudePc = "idle"
    /\ claudeLeaves = <<>>
    /\ claudeSessions = <<>>
    /\ claudeKeys = {}
    /\ claudeResult = Pending
    /\ claudeCalls = 0
    /\ claudeLookups = <<>>

(***************************************************************************)
(* SpecCodex: getSessions, the Codex loader, over up to MaxCodexFiles       *)
(* rollout files (the merge layer is not part of this specification).      *)
(* The scan visits the day directories in descending order of their        *)
(* names, whatever timestamps the file names inside them carry, so the     *)
(* files are taken in any order.  The first user message of a file is      *)
(* "fix" or "add" inside the first DEFAULT_HEAD_RECORD_LIMIT records, or   *)
(* lies beyond them (the session then has no fork signature).  The code    *)
(* only compares timestamps, so the n files use the timestamps 1..k        *)
(* without gaps.                                                           *)
(***************************************************************************)
ForkOpenings ==
    {[text |-> "fix", gap |-> 0], [text |-> "add", gap |-> 0], [text |-> "fix", gap |-> 9]}

ForkShapes(n) == [timestamp : 1..n, opening : ForkOpenings]

ForkFile(i, shape) ==
    [id |-> CodexId(i), timestamp |-> shape.timestamp,
     lines |-> RolloutLines(shape.opening.text, shape.opening.gap, CodexRaw(2, 1, 1, 0))]

NoGaps(shapes) ==
    LET used == {shapes[i].timestamp : i \in DOMAIN shapes}
    IN  \A t \in used : 1..t \subseteq used

\* signatures are only compared for equality: "add" names the second signature in
\* visiting order
NamedInOrder(shapes) ==
    \A i \in DOMAIN shapes :
        shapes[i].opening = [text |-> "add", gap |-> 0] =>
            [text |-> "fix", gap |-> 0] \in {shapes[j].opening : j \in 1..(i - 1)}

InitCodex ==
    /\ filter = "codex"
    /\ pricing = AllPriced
    /\ \E n \in 0..MaxCodexFiles : \E shapes \in [1..n -> ForkShapes(n)] :
          /\ NoGaps(shapes)
          /\ NamedInOrder(shapes)
          /\ codexFiles = Array([i \in 1..n |-> ForkFile(i, shapes[i])])
    /\ IdleCodex
    /\ claudeMessages = <<>>
    /\ IdleClaude
    /\ result = Pending
    /\ options = DefaultOptions
    /\ NoWalk /\ NoPicker /\ FirstInvocation /\ NoUsageRun /\ NoResume

NextCodex == CodexScan \/ CodexMark \/ CodexOrder \/ CodexPrice

SpecCodex == InitCodex /\ [][NextCodex]_vars

(***************************************************************************)
(* SpecClaude: getClaudeSessions, the Claude Code loader, over up to       *)
(* MaxMessages parsed records (the merge layer is not part of this         *)
(* specification).  Record i has uuid ClaudeUuid(i) and timestamp i; its   *)
(* parent is null, an earlier record, or the record itself (as in a        *)
(* corrupted log); it is a user record, or an assistant record with usage  *)
(* carrying one of two deduplication keys; it is flagged sidechain or not. *)
(***************************************************************************)
ClaudeUsage(input, cacheCreation, cacheRead, output) ==
    [input_tokens |-> Num(input), cache_creation_input_tokens |-> Num(cacheCreation),
     cache_read_input_tokens |-> Num(cacheRead), output_tokens |-> Num(output),
     reasoning_output_tokens |-> <<>>]

UserTurn ==
    [type |-> "user", messageId |-> NULL, requestId |-> NULL, model |-> NULL,
     usage |-> NoClaudeUsage, text |-> "fix"]

\* message.id "m1" with requestId "r1"
AssistantTurnA ==
    [type |-> "assistant", messageId |-> "m1", requestId |-> "r1", model |-> "sonnet",
     usage |-> ClaudeUsage(1, 0, 0, 1), text |-> NULL]

\* message.id "m2" without requestId
AssistantTurnB ==
    [type |-> "assistant", messageId |-> "m2", requestId |-> NULL, model |-> "sonnet",
     usage |-> ClaudeUsage(3, 0, 0, 0), text |-> NULL]

ClaudeTurns == {UserTurn, AssistantTurnA, AssistantTurnB}

ClaudeRecord(i, parent, turn, sidechain) ==
    [uuid |-> ClaudeUuid(i),
     parentUuid |-> IF parent = 0 THEN NULL ELSE ClaudeUuid(parent),
     type |-> turn.type, isSidechain |-> sidechain, timestamp |-> i,
     messageId |-> turn.messageId, requestId |-> turn.requestId,
     model |-> turn.model, usage |-> turn.usage, text |-> turn.text]

ClaudeShapes(n) == [parent : 0..n, turn : ClaudeTurns, sidechain : BOOLEAN]

\* a record is appended to the log after the record it answers
ParentsNotLater(shapes) == \A i \in DOMAIN shapes : shapes[i].parent <= i

InitClaude ==
    /\ filter = "claudecode"
    /\ pricing = AllPriced
    /\ codexFiles = <<>>
    /\ IdleCodex
    /\ \E n \in 0..MaxMessages : \E shapes \in {f \in [1..n -> ClaudeShapes(n)] : ParentsNotLater(f)} :
          claudeMessages = Array([i \in 1..n |->
              ClaudeRecord(i, shapes[i].parent, shapes[i].turn, shapes[i].sidechain)])
    /\ IdleClaude
    /\ result = Pending
    /\ options = DefaultOptions
    /\ NoWalk /\ NoPicker /\ FirstInvocation /\ NoUsageRun /\ NoResume

NextClaude == ClaudeParse \/ ClaudeLeaf \/ ClaudeMark \/ ClaudeOrder \/ ClaudePrice

SpecClaude == InitClaude /\ [][NextClaude]_vars

(***************************************************************************)
(* Fork detection and branch ordering, checked under SpecCodex.            *)
(* At codexPc = "order" codexSessions is the array markForkedSessions has  *)
(* just marked and orderSessionsByBranch is about to receive.              *)
(***************************************************************************)
Marked == codexPc = "order"

\* indices of the sessions sharing the non-null fork signature of sessions[i]
SameSignature(sessions, i) ==
    {j \in 1..Len(sessions) :
        /\ sessions[i].forkSignature # NULL
        /\ sessions[j].forkSignature = sessions[i].forkSignature}

ForkGroups(sessions) ==
    {g \in {SameSignature(sessions, i) : i \in 1..Len(sessions)} : Cardinality(g) >= 2}

DistinctTimestamps(sessions, g) ==
    \A i, j \in g : i # j => sessions[i].timestamp # sessions[j].timestamp

\* C3 (as stated): after markForkedSessions every fork group, equal timestamps
\* included, has exactly one member with the base marker; that member has the
\* minimum timestamp of the group and is the only one whose fork flag is false.
C3_OneBaseIsTheOnlyNonFork ==
    Marked =>
      \A g \in ForkGroups(codexSessions) :
        \E b \in g :
          /\ codexSessions[b].branchMarker = MarkerBase
          /\ \A j \in g \ {b} : codexSessions[j].branchMarker # MarkerBase
          /\ \A j \in g : codexSessions[b].timestamp <= codexSessions[j].timestamp
          /\ ~codexSessions[b].isFork
          /\ \A j \in g \ {b} : codexSessions[j].isFork

\* C4: after markForkedSessions, in a group of n >= 2 sessions with one signature
\* and pairwise distinct timestamps the earliest has the base marker and fork flag
\* false, the latest has the branch-start marker, the members strictly between
\* have the branch-continuation marker and all but the earliest have fork flag
\* true; a session whose signature is null or unshared keeps fork flag false and
\* the neutral marker.
C4_MarkersByTimestamp ==
    Marked =>
      \A i \in 1..Len(codexSessions) :
        LET s == codexSessions[i]
            g == SameSignature(codexSessions, i)
            earliest == \A j \in g : s.timestamp <= codexSessions[j].timestamp
            latest == \A j \in g : s.timestamp >= codexSessions[j].timestamp
        IN  IF Cardinality(g) < 2
            THEN ~s.isFork /\ s.branchMarker = MarkerNone
            ELSE DistinctTimestamps(codexSessions, g) =>
                   /\ earliest => s.branchMarker = MarkerBase /\ ~s.isFork
                   /\ ~earliest => s.isFork
                   /\ latest => s.branchMarker = MarkerBranchStart
                   /\ (~earliest /\ ~latest) => s.branchMarker = MarkerBranchMid

\* a marked group of three distinct timestamps next to a session without signature
C4_Witness ==
    /\ Marked
    /\ \E g \in ForkGroups(codexSessions) :
          /\ Cardinality(g) = 3
          /\ DistinctTimestamps(codexSessions, g)
          /\ \E i \in g : codexSessions[i].branchMarker = MarkerBranchMid
    /\ \E i \in 1..Len(codexSessions) :
          /\ codexSessions[i].forkSignature = NULL
          /\ codexSessions[i].branchMarker = MarkerNone

\* two sessions of one fork group: both carry a branch marker and one signature
InSameGroup(s, t) ==
    HasBranchMarker(s) /\ HasBranchMarker(t) /\ s.forkSignature = t.forkSignature

\* the key of the block out[k] belongs to
BlockKey(out, k) ==
    IF ~HasBranchMarker(out[k]) THEN out[k].timestamp
    ELSE CHOOSE m \in {out[j].timestamp : j \in {i \in 1..Len(out) : InSameGroup(out[i], out[k])}} :
            \A j \in 1..Len(out) : InSameGroup(out[j], out[k]) => out[j].timestamp <= m

\* C6: orderSessionsByBranch returns a permutation of its input in which the
\* sessions of one fork group are consecutive (nothing else lies between two of
\* them) and, inside the block, in non-increasing timestamp order.
C6_GroupsStayContiguous ==
    Marked =>
      LET out == orderSessionsByBranch(codexSessions)
      IN  /\ Len(out) = Len(codexSessions)
          /\ \A i \in 1..Len(codexSessions) :
                Cardinality({k \in 1..Len(out) : out[k] = codexSessions[i]}) = 1
          /\ \A a, b \in 1..Len(out) :
                (a < b /\ InSameGroup(out[a], out[b])) =>
                   /\ \A c \in a..b : InSameGroup(out[a], out[c])
                   /\ out[a].timestamp >= out[b].timestamp

\* a single whose timestamp lies strictly between those of two members of a group:
\* recency alone would put it inside the block
C6_Witness ==
    /\ Marked
    /\ LET out == orderSessionsByBranch(codexSessions)
       IN  \E a, b, c \in 1..Len(out) :
              /\ a < b
              /\ InSameGroup(out[a], out[b])
              /\ ~HasBranchMarker(out[c])
              /\ out[a].timestamp > out[c].timestamp
              /\ out[c].timestamp > out[b].timestamp

\* the example of C7 with 100, 90, 70, 50 read as 4, 3, 2, 1: singles at 4 and 1
\* and one group {3, 2}
C7_Example(sessions) ==
    /\ Len(sessions) = 4
    /\ \E p, q, r, t \in 1..4 :
          /\ sessions[p].timestamp = 4 /\ ~HasBranchMarker(sessions[p])
          /\ sessions[q].timestamp = 3
          /\ sessions[r].timestamp = 2 /\ InSameGroup(sessions[q], sessions[r])
          /\ sessions[t].timestamp = 1 /\ ~HasBranchMarker(sessions[t])

\* C7: in the output of orderSessionsByBranch the blocks (a fork group keyed by the
\* maximum timestamp of its members, a single by its own timestamp) are in
\* non-increasing key order, a group whose key equals a single's timestamp comes
\* before that single, and the example input yields the order 4, 3, 2, 1.
C7_BlocksByRecency ==
    Marked =>
      LET out == orderSessionsByBranch(codexSessions)
      IN  /\ \A a, b \in 1..Len(out) :
                a < b => BlockKey(out, a) >= BlockKey(out, b)
          /\ \A a, b \in 1..Len(out) :
                (/\ HasBranchMarker(out[a])
                 /\ ~HasBranchMarker(out[b])
                 /\ BlockKey(out, a) = out[b].timestamp) => a < b
          /\ C7_Example(codexSessions) =>
                <<out[1].timestamp, out[2].timestamp, out[3].timestamp,
                  out[4].timestamp>> = <<4, 3, 2, 1>>

\* a single scanned before a group whose latest member has the single's timestamp
C7_Witness ==
    /\ Marked
    /\ \E i, j \in 1..Len(codexSessions) :
          /\ i < j
          /\ ~HasBranchMarker(codexSessions[i])
          /\ codexSessions[j].branchMarker = MarkerBranchStart
          /\ codexSessions[i].timestamp = codexSessions[j].timestamp

\* the example input of C7 is among the inputs
C7_ExampleReached == Marked /\ C7_Example(codexSessions)

(***************************************************************************)
(* Deduplication of assistant usage, checked under SpecClaude.             *)
(***************************************************************************)
\* an assistant record with usage data
CarriesUsage(message) == message.type = "assistant" /\ HasUsage(message)

\* the deduplication keys the parsed records carry
UsageKeysOf(messages) ==
    {getAssistantUsageKey(messages[k]) :
        k \in {i \in 1..Len(messages) : CarriesUsage(messages[i])}}

\* the transcripts of the leaves
LeafTranscripts(messages) ==
    {buildTranscript(leaf, messages) : leaf \in Range(identifyLeafMessages(messages))}

\* positions of the records with deduplication key `key` on a transcript
KeyPositions(transcript, key) ==
    {k \in 1..Len(transcript) :
        CarriesUsage(transcript[k]) /\ getAssistantUsageKey(transcript[k]) = key}

\* the sessions (and positions in their usage lists) that counted `key`
Holders(sessions, key) ==
    {h \in (1..Len(sessions)) \X (1..MaxMessages + 1) :
        /\ h[2] <= Len(sessions[h[1]].usageKeys)
        /\ sessions[h[1]].usageKeys[h[2]] = key}

\* blended tokens of the usage the records with `key` carry
KeyBlended(messages, key) ==
    LET k == CHOOSE i \in 1..Len(messages) :
                CarriesUsage(messages[i]) /\ getAssistantUsageKey(messages[i]) = key
    IN  blendedTokenTotal(addUsage(EmptyUsage, ClaudeDelta(messages[k].usage)))

RECURSIVE SumKeyBlended(_, _)
SumKeyBlended(messages, keys) ==
    IF keys = {} THEN 0
    ELSE LET key == CHOOSE k \in keys : TRUE
         IN  KeyBlended(messages, key) + SumKeyBlended(messages, keys \ {key})

\* C2 (as stated): when several assistant records with one key lie on one
\* transcript, or one assistant record is reachable from two or more leaves, the
\* key's usage is added to the tokenUsage of exactly one session.
C2_KeyInExactlyOneSession ==
    claudePc = "done" =>
      \A key \in UsageKeysOf(claudeMessages) :
        (\/ \E t \in LeafTranscripts(claudeMessages) :
               Cardinality(KeyPositions(t, key)) >= 2
         \/ Cardinality({t \in LeafTranscripts(claudeMessages) :
                            KeyPositions(t, key) # {}}) >= 2)
        => Cardinality(Holders(claudeResult.sessions, key)) = 1

\* a leaf whose transcript holds `key` and a record that is not a sidechain record
OnPrimaryTranscript(messages, key) ==
    \E t \in LeafTranscripts(messages) :
        /\ KeyPositions(t, key) # {}
        /\ \E k \in 1..Len(t) : ~t[k].isSidechain

\* C2 (amended): within one getClaudeSessions invocation a deduplication key is
\* counted in at most one session and at most once inside it; it is counted in
\* exactly one returned session when some leaf whose transcript holds the key
\* also holds a record that is not a sidechain record, and in none otherwise;
\* totalBlendedTokens is the sum of the counted keys' usage, each taken once.
C2_KeyCountedOncePerPrimaryTranscript ==
    /\ \A key \in UsageKeysOf(claudeMessages) :
          Cardinality(Holders(claudeSessions, key)) <= 1
    /\ claudePc = "done" =>
          /\ \A key \in UsageKeysOf(claudeMessages) :
                Cardinality(Holders(claudeResult.sessions, key)) =
                   IF OnPrimaryTranscript(claudeMessages, key) THEN 1 ELSE 0
          /\ claudeResult.totalBlendedTokens =
                SumKeyBlended(claudeMessages,
                    {key \in UsageKeysOf(claudeMessages) :
                        OnPrimaryTranscript(claudeMessages, key)})

\* one key repeated on a transcript and reachable from two leaves, each with a
\* record that is not a sidechain record, returned in one session
C2_Witness ==
    /\ claudePc = "done"
    /\ \E key \in UsageKeysOf(claudeMessages) :
          /\ Cardinality({t \in LeafTranscripts(claudeMessages) :
                             /\ Cardinality(KeyPositions(t, key)) >= 2
                             /\ \E k \in 1..Len(t) : ~t[k].isSidechain}) >= 2
          /\ Cardinality(Holders(claudeResult.sessions, key)) = 1

(***************************************************************************)
(* Spec: getAllSessions(filter) for the three filter values over up to     *)
(* MaxMergeFiles rollout files and up to MaxMergeMessages Claude records.  *)
(* A loader the filter does not select is never called, so its inputs are  *)
(* left empty.  Rollout file i has timestamp i and opens with "fix"; its   *)
(* token_count event is ordinary, all zero, has more cached than input     *)
(* tokens, or has a negative output count.  Claude record i has timestamp  *)
(* i, opens a conversation or answers record i - 1, and is a user record   *)
(* "fix" or an assistant record with ordinary, all-zero or negative usage. *)
(* Pricing is known for every model, or missing for one and failing for    *)
(* the other.                                                              *)
(***************************************************************************)
MergeUsages ==
    {CodexRaw(2, 1, 1, 0), CodexRaw(0, 0, 0, 0), CodexRaw(1, 3, 1, 0), CodexRaw(1, 0, -2, 0)}

MergeShapes == [usage : MergeUsages]

MergeFile(i, shape) ==
    [id |-> CodexId(i), timestamp |-> i,
     lines |-> RolloutLines("fix", 0, shape.usage)]

\* assistant records without message id and request id: the key is the uuid
AssistantTurnZero ==
    [type |-> "assistant", messageId |-> NULL, requestId |-> NULL, model |-> "sonnet",
     usage |-> ClaudeUsage(0, 0, 0, 0), text |-> NULL]

AssistantTurnNegative ==
    [AssistantTurnZero EXCEPT !.usage = ClaudeUsage(1, 0, 0, -2)]

MergeTurns == {UserTurn, AssistantTurnA, AssistantTurnZero, AssistantTurnNegative}

MergeRecords(n) == [parent : 0..n, turn : MergeTurns]

\* a record opens a conversation or answers the record before it
Threaded(shapes) == \A i \in DOMAIN shapes : shapes[i].parent \in {0, i - 1}

SomeUnpriced ==
    [m \in Models |-> IF m = LEGACY_FALLBACK_MODEL THEN NoPricing ELSE ThrowsPricing]

Init ==
    /\ filter \in {"all", "codex", "claudecode"}
    /\ pricing \in {AllPriced, SomeUnpriced}
    /\ \E n \in 0..MaxMergeFiles : \E shapes \in [1..n -> MergeShapes] :
          /\ ~CallsCodex(filter) => n = 0
          /\ codexFiles = Array([i \in 1..n |-> MergeFile(i, shapes[i])])
    /\ IdleCodex
    /\ \E n \in 0..MaxMergeMessages : \E shapes \in {f \in [1..n -> MergeRecords(n)] : Threaded(f)} :
          /\ ~CallsClaude(filter) => n = 0
          /\ claudeMessages = Array([i \in 1..n |->
                ClaudeRecord(i, shapes[i].parent, shapes[i].turn, FALSE)])
    /\ IdleClaude
    /\ result = Pending
    /\ options = DefaultOptions
    /\ NoWalk /\ NoPicker /\ FirstInvocation /\ NoUsageRun /\ NoResume

Next ==
    \/ CodexScan \/ CodexThrow \/ CodexMark \/ CodexOrder \/ CodexPrice
    \/ ClaudeParse \/ ClaudeThrow \/ ClaudeLeaf \/ ClaudeMark \/ ClaudeOrder
    \/ ClaudePrice \/ Return

Spec == Init /\ [][Next]_vars

(***************************************************************************)
(* The merged call, checked under Spec.                                    *)
(***************************************************************************)
ReturnedResults ==
    {r \in {codexResult, claudeResult, result} : r.status = "resolved"}

SessionsFrom(sessions, source) == SelectSeq(sessions, LAMBDA s : s.source = source)

\* the same sessions, in whatever order
SameSessions(a, b) ==
    /\ Len(a) = Len(b)
    /\ \A i \in 1..Len(a) :
          Cardinality({k \in 1..Len(a) : a[k] = a[i]})
            = Cardinality({k \in 1..Len(b) : b[k] = a[i]})

\* C1: getAllSessions calls only the loaders its filter selects and never
\* rejects; the contribution of a selected loader that throws is an empty result,
\* and the sessions and totals of the other source are still returned.
C1_NeverRejects ==
    /\ result.status # "rejected"
    /\ codexCalls <= 1 /\ claudeCalls <= 1
    /\ ~CallsCodex(filter) => codexCalls = 0
    /\ ~CallsClaude(filter) => claudeCalls = 0
    /\ result.status = "resolved" =>
          /\ codexCalls = (IF filter \in {"codex", "all"} THEN 1 ELSE 0)
          /\ claudeCalls = (IF filter \in {"claudecode", "all"} THEN 1 ELSE 0)
          /\ (codexPc = "failed" \/ filter = "claudecode") =>
                SessionsFrom(result.sessions, "codex") = <<>>
          /\ (claudePc = "failed" \/ filter = "codex") =>
                SessionsFrom(result.sessions, "claude-code") = <<>>
          /\ (filter = "all" /\ codexPc = "failed" /\ claudePc = "done") =>
                /\ SameSessions(result.sessions, claudeResult.sessions)
                /\ result.totalBlendedTokens = claudeResult.totalBlendedTokens
                /\ result.totalCostUsd = claudeResult.totalCostUsd
          /\ (filter = "all" /\ claudePc = "failed" /\ codexPc = "done") =>
                /\ SameSessions(result.sessions, codexResult.sessions)
                /\ result.totalBlendedTokens = codexResult.totalBlendedTokens
                /\ result.totalCostUsd = codexResult.totalCostUsd
          /\ ((CallsCodex(filter) => codexPc = "failed")
               /\ (CallsClaude(filter) => claudePc = "failed")) =>
                /\ result.sessions = <<>>
                /\ result.totalBlendedTokens = 0
                /\ result.totalCostUsd = 0

\* the Codex loader threw and the merged call returned the Claude sessions
C1_Witness ==
    /\ filter = "all"
    /\ codexPc = "failed"
    /\ codexFiles # <<>>
    /\ result.status = "resolved"
    /\ Len(result.sessions) > 0
    /\ result.totalBlendedTokens > 0

\* C5 (as stated): in the result of getAllSessions('all') the Codex and Claude
\* sessions sharing one non-null fork signature form one fork group: exactly one
\* of the returned sessions with that signature carries the base marker and
\* every other one has fork flag true and a branch marker.
C5_MergedForkGroups ==
    (filter = "all" /\ result.status = "resolved") =>
      \A g \in ForkGroups(result.sessions) :
        \E b \in g :
          /\ result.sessions[b].branchMarker = MarkerBase
          /\ \A j \in g \ {b} :
                /\ result.sessions[j].branchMarker \in {MarkerBranchStart, MarkerBranchMid}
                /\ result.sessions[j].isFork

AllZero(usage) ==
    /\ usage.inputTokens = 0
    /\ usage.cachedInputTokens = 0
    /\ usage.outputTokens = 0
    /\ usage.reasoningOutputTokens = 0

\* C8: no session whose four token fields are all zero appears in the result of
\* getSessions, getClaudeSessions or getAllSessions, and the totals are sums over
\* the sessions that appear, so such a session adds nothing to them.
C8_NoAllZeroSession ==
    \A r \in ReturnedResults :
      /\ \A k \in 1..Len(r.sessions) : ~AllZero(r.sessions[k].tokenUsage)
      /\ r.totalBlendedTokens =
            SumBlended(SelectSeq(r.sessions, LAMBDA s : ~AllZero(s.tokenUsage)))
      /\ r.totalCostUsd =
            SumCost(SelectSeq(r.sessions, LAMBDA s : ~AllZero(s.tokenUsage)))

\* both scanners built an all-zero session and the merged result holds others only
C8_Witness ==
    /\ filter = "all"
    /\ result.status = "resolved"
    /\ codexPc = "done" /\ claudePc = "done"
    /\ \E i \in 1..Len(codexFiles) : codexFiles[i].lines[3].last = CodexRaw(0, 0, 0, 0)
    /\ \E leaf \in Range(identifyLeafMessages(claudeMessages)) :
          leaf.usage = ClaudeUsage(0, 0, 0, 0)
    /\ SessionsFrom(result.sessions, "codex") # <<>>
    /\ SessionsFrom(result.sessions, "claude-code") # <<>>

\* C9 (as stated): for every returned session blendedTokens equals
\* max(0, inputTokens - cachedInputTokens) + outputTokens + reasoningOutputTokens
\* of its final tokenUsage and is never negative.
C9_BlendedNeverNegative ==
    \A r \in ReturnedResults : \A k \in 1..Len(r.sessions) :
      LET usage == r.sessions[k].tokenUsage
          nonCached == IF usage.inputTokens > usage.cachedInputTokens
                       THEN usage.inputTokens - usage.cachedInputTokens ELSE 0
      IN  /\ r.sessions[k].blendedTokens =
                nonCached + usage.outputTokens + usage.reasoningOutputTokens
          /\ r.sessions[k].blendedTokens >= 0

\* C10: in every result totalBlendedTokens is the sum of blendedTokens and
\* totalCostUsd the sum of costUsd over exactly the returned sessions, and for
\* getAllSessions('all') both are the sums of the two sources' totals.
C10_TotalsAreSums ==
    /\ \A r \in ReturnedResults :
          /\ r.totalBlendedTokens = SumBlended(r.sessions)
          /\ r.totalCostUsd = SumCost(r.sessions)
    /\ (filter = "all" /\ result.status = "resolved") =>
          /\ result.totalBlendedTokens =
                codexResult.totalBlendedTokens + claudeResult.totalBlendedTokens
          /\ result.totalCostUsd = codexResult.totalCostUsd + claudeResult.totalCostUsd

\* a merged result with priced sessions of both sources
C10_Witness ==
    /\ filter = "all"
    /\ result.status = "resolved"
    /\ Len(result.sessions) >= 3
    /\ codexResult.totalCostUsd > 0
    /\ claudeResult.totalCostUsd > 0
    /\ result.totalCostUsd > codexResult.totalCostUsd
    /\ result.totalBlendedTokens > claudeResult.totalBlendedTokens

(***************************************************************************)
(* SpecUsage: the usage accumulators on their own.                         *)
(* Either readHead is stepped through the lines of one rollout file, one   *)
(* iteration of its loop per step, or aggregateUsage and                   *)
(* aggregateUsageByModel are applied to the usage messages of one Claude   *)
(* session.  The lines are turn_context records (naming a model or a       *)
(* blank one) and token_count events carrying info.last_token_usage,       *)
(* info.total_token_usage or both, with or without a model of their own;   *)
(* a snapshot is ordinary, all zero with a positive total_tokens, has more *)
(* cached than input tokens, or has a negative output count.               *)
(***************************************************************************)
MaxLines == 3
MaxUsageMessages == 2

ReadNext ==
    /\ reader.pos < Len(rollout)
    /\ reader.primary = <<>>
    /\ reader' = [pos |-> reader.pos + 1,
                  st |-> ReadLine(reader.st, rollout[reader.pos + 1],
                                  DEFAULT_HEAD_RECORD_LIMIT),
                  primary |-> <<>>]
    /\ UNCHANGED <<frontVars, filter, pricing, codexVars, claudeVars, result, options, rescanVars,
                   rollout, aggregate, resumeVars>>

Aggregate ==
    /\ Len(aggregate.messages) > 0
    /\ ~aggregate.done
    /\ aggregate' = [aggregate EXCEPT
                        !.done = TRUE,
                        !.tokenUsage = aggregateUsage(aggregate.messages),
                        !.modelUsage = aggregateUsageByModel(aggregate.messages),
                        !.model = selectPrimaryModel(
                                      aggregateUsageByModel(aggregate.messages))]
    /\ UNCHANGED <<frontVars, filter, pricing, codexVars, claudeVars, result, options, rescanVars,
                   rollout, reader, resumeVars>>

\* the primary-model loop of getSessions, run once readHead has returned;
\* reader.primary is <<>> before it and <<primaryModel>> after it
SelectPrimary ==
    /\ reader.pos >= 1
    /\ reader.pos = Len(rollout)
    /\ reader.primary = <<>>
    /\ reader' = [reader EXCEPT !.primary = <<selectPrimaryModel(reader.st.perModel)>>]
    /\ UNCHANGED <<frontVars, filter, pricing, codexVars, claudeVars, result, options, rescanVars,
                   rollout, aggregate, resumeVars>>

Snapshot(input, cached, output, reasoning, total) ==
    [CodexRaw(input, cached, output, reasoning) EXCEPT !.total_tokens = total]

Snapshots ==
    {Snapshot(2, 1, 1, 0, <<>>), Snapshot(3, 1, 2, 1, Num(6)), Snapshot(0, 0, 0, 0, Num(5)),
     Snapshot(2, 3, 1, 0, <<>>), Snapshot(1, 0, -2, 0, <<>>)}

TurnContextLine(model) == [BlankLine EXCEPT !.kind = "turn_context", !.model = model]
TotalLine(raw) == [BlankLine EXCEPT !.kind = "token_count", !.hasTotal = TRUE, !.total = raw]

UsageLines ==
    {LastLine(u) : u \in Snapshots \ {Snapshot(2, 3, 1, 0, <<>>)}}
    \cup {TotalLine(u) : u \in Snapshots \ {Snapshot(1, 0, -2, 0, <<>>)}}
    \cup {[LastLine(Snapshot(2, 1, 1, 0, <<>>)) EXCEPT !.model = "o3"],
          [TotalLine(Snapshot(3, 1, 2, 1, Num(6))) EXCEPT !.model = "o3"],
          [LastLine(Snapshot(2, 1, 1, 0, <<>>)) EXCEPT
               !.hasTotal = TRUE, !.total = Snapshot(3, 1, 2, 1, Num(6))],
          TurnContextLine("gpt-5"), TurnContextLine("o4"), TurnContextLine("  ")}

AssistantTurnReasoning ==
    [AssistantTurnZero EXCEPT !.usage.input_tokens = Num(1),
                              !.usage.cache_read_input_tokens = Num(2),
                              !.usage.output_tokens = Num(1),
                              !.usage.reasoning_output_tokens = Num(2)]

\* an assistant message with usage whose payload has no `model` (model?: string)
AssistantTurnNoModel == [AssistantTurnB EXCEPT !.model = NULL]

\* a second model, with as many tokens as AssistantTurnB
AssistantTurnOpus == [AssistantTurnB EXCEPT !.messageId = "m3", !.model = "opus"]

UsageTurns ==
    {AssistantTurnA, AssistantTurnB, AssistantTurnReasoning, AssistantTurnNegative,
     AssistantTurnNoModel, AssistantTurnOpus}

InitUsage ==
    /\ filter = "all"
    /\ pricing = AllPriced
    /\ codexFiles = <<>>
    /\ IdleCodex
    /\ claudeMessages = <<>>
    /\ IdleClaude
    /\ result = Pending
    /\ options = DefaultOptions
    /\ NoWalk /\ NoPicker /\ FirstInvocation /\ NoResume
    /\ reader = [pos |-> 0, st |-> ReadHeadStart, primary |-> <<>>]
    /\ \E n \in 0..MaxLines : \E m \in 0..MaxUsageMessages :
          /\ n = 0 \/ m = 0
          /\ rollout \in [1..n -> UsageLines]
          /\ \E turns \in [1..m -> UsageTurns] :
                aggregate = [messages |-> Array([i \in 1..m |->
                                 ClaudeRecord(i, i - 1, turns[i], FALSE)]),
                             done |-> FALSE,
                             tokenUsage |-> EmptyUsage, modelUsage |-> <<>>,
                             model |-> NULL]

NextUsage == ReadNext \/ SelectPrimary \/ Aggregate

SpecUsage == InitUsage /\ [][NextUsage]_vars

\* the record the last iteration of readHead's loop consumed, and readHead's
\* variables before that iteration
ReadingLine == rollout[reader.pos]
ReadBefore == readHead(SubSeq(rollout, 1, reader.pos - 1), DEFAULT_HEAD_RECORD_LIMIT)

\* what the last iteration added to `totals`
AddedTotals ==
    [inputTokens |-> reader.st.totals.inputTokens - ReadBefore.totals.inputTokens,
     cachedInputTokens |->
         reader.st.totals.cachedInputTokens - ReadBefore.totals.cachedInputTokens,
     outputTokens |-> reader.st.totals.outputTokens - ReadBefore.totals.outputTokens,
     reasoningOutputTokens |->
         reader.st.totals.reasoningOutputTokens - ReadBefore.totals.reasoningOutputTokens,
     totalTokens |-> reader.st.totals.totalTokens - ReadBefore.totals.totalTokens]

\* C11: a record with last_token_usage adds its explicit total_tokens when that is
\* positive and otherwise what it adds to inputTokens plus what it adds to
\* outputTokens; the usage of a Claude session has
\* totalTokens = inputTokens + outputTokens.
C11_TotalIsExplicitOrInputPlusOutput ==
    /\ (reader.pos >= 1 /\ ReadingLine.kind = "token_count" /\ ReadingLine.hasLast) =>
          LET explicit == ensureNumber(ReadingLine.last.total_tokens)
          IN  AddedTotals.totalTokens =
                  IF explicit > 0 THEN explicit
                  ELSE AddedTotals.inputTokens + AddedTotals.outputTokens
    /\ aggregate.done =>
          aggregate.tokenUsage.totalTokens =
              aggregate.tokenUsage.inputTokens + aggregate.tokenUsage.outputTokens

NonNegativeUsage(usage) ==
    /\ usage.inputTokens >= 0
    /\ usage.cachedInputTokens >= 0
    /\ usage.outputTokens >= 0
    /\ usage.reasoningOutputTokens >= 0
    /\ usage.totalTokens >= 0

\* C12: every field of every TokenUsage either scanner builds, session-level and
\* per-model, is a non-negative integer.
C12_UsageFieldsNonNegative ==
    /\ NonNegativeUsage(reader.st.totals)
    /\ \A k \in 1..Len(reader.st.perModel) : NonNegativeUsage(reader.st.perModel[k].usage)
    /\ NonNegativeUsage(aggregate.tokenUsage)
    /\ \A k \in 1..Len(aggregate.modelUsage) : NonNegativeUsage(aggregate.modelUsage[k].usage)

\* the sum of the usage of the entries of a perModel Map
RECURSIVE PerModelSum(_)
PerModelSum(perModel) ==
    IF Len(perModel) = 0 THEN ZeroRaw
    ELSE LET rest == PerModelSum(Tail(perModel))
             usage == perModel[1].usage
         IN  [input_tokens |-> usage.inputTokens + rest.input_tokens,
              cached_input_tokens |-> usage.cachedInputTokens + rest.cached_input_tokens,
              output_tokens |-> usage.outputTokens + rest.output_tokens,
              reasoning_output_tokens |->
                  usage.reasoningOutputTokens + rest.reasoning_output_tokens,
              total_tokens |-> usage.totalTokens + rest.total_tokens]

\* `totals` after the last record read, field by field
SessionTotals ==
    [input_tokens |-> reader.st.totals.inputTokens,
     cached_input_tokens |-> reader.st.totals.cachedInputTokens,
     output_tokens |-> reader.st.totals.outputTokens,
     reasoning_output_tokens |-> reader.st.totals.reasoningOutputTokens,
     total_tokens |-> reader.st.totals.totalTokens]

\* the last record read is a token_count event with a cumulative snapshot only
CumulativeOnly ==
    /\ reader.pos >= 1
    /\ ReadingLine.kind = "token_count"
    /\ ReadingLine.hasTotal
    /\ ~ReadingLine.hasLast

\* max(0, current - previous cumulative) per field, the whole snapshot when no
\* cumulative snapshot was read before
FieldDeltas ==
    LET current == normalizeRawUsage(ReadingLine.total)
        previous == ReadBefore.previousTotals
    IN  IF ~ReadBefore.hasPreviousTotals THEN current
        ELSE [field \in DOMAIN current |->
                 IF current[field] - previous[field] > 0
                 THEN current[field] - previous[field] ELSE 0]

\* C19 as stated: a cumulative-only event adds max(0, current - previous) for
\* each of the five fields (the whole snapshot when there is no previous one),
\* to the session and to the per-model accumulators, and after every event with
\* a cumulative snapshot the remembered snapshot is that event's snapshot.
C19_DeltaIsClampedDifference ==
    /\ CumulativeOnly =>
          /\ AddedTotals = addUsage(EmptyUsage, FieldDeltas)
          /\ PerModelSum(reader.st.perModel) = SessionTotals
    /\ (reader.pos >= 1 /\ ReadingLine.kind = "token_count" /\ ReadingLine.hasTotal) =>
          /\ reader.st.hasPreviousTotals
          /\ reader.st.previousTotals = normalizeRawUsage(ReadingLine.total)

\* C19 amended: of the clamped differences, the cached input is capped at the
\* input difference and a total difference that is not positive is replaced by
\* input difference + output difference; when input, capped cached input,
\* output and reasoning are all zero nothing is added.  The remembered snapshot
\* is updated as stated.
C19_DeltaIsCappedClampedDifference ==
    /\ CumulativeOnly =>
          LET d == FieldDeltas
              cached == IF d.cached_input_tokens < d.input_tokens
                        THEN d.cached_input_tokens ELSE d.input_tokens
              total == IF d.total_tokens > 0 THEN d.total_tokens
                       ELSE d.input_tokens + d.output_tokens
              nothing == /\ d.input_tokens = 0 /\ cached = 0
                         /\ d.output_tokens = 0 /\ d.reasoning_output_tokens = 0
          IN  /\ AddedTotals =
                    IF nothing THEN EmptyUsage
                    ELSE [inputTokens |-> d.input_tokens,
                          cachedInputTokens |-> cached,
                          outputTokens |-> d.output_tokens,
                          reasoningOutputTokens |-> d.reasoning_output_tokens,
                          totalTokens |-> total]
              /\ PerModelSum(reader.st.perModel) = SessionTotals
    /\ (reader.pos >= 1 /\ ReadingLine.kind = "token_count" /\ ReadingLine.hasTotal) =>
          /\ reader.st.hasPreviousTotals
          /\ reader.st.previousTotals = normalizeRawUsage(ReadingLine.total)

\* a cumulative-only event after an earlier cumulative snapshot, one of whose
\* fields went down and another up
C19_Witness ==
    /\ CumulativeOnly
    /\ ReadBefore.hasPreviousTotals
    /\ AddedTotals.inputTokens > 0
    /\ \E field \in DOMAIN ZeroRaw :
          normalizeRawUsage(ReadingLine.total)[field] < ReadBefore.previousTotals[field]

\* the model named by the latest of `lines` that is a turn_context record naming
\* a model, NULL when there is none
RECURSIVE LatestContextModel(_)
LatestContextModel(lines) ==
    IF Len(lines) = 0 THEN NULL
    ELSE LET line == lines[Len(lines)]
         IN  IF line.kind = "turn_context" /\ asNonEmptyString(line.model) # NULL
             THEN asNonEmptyString(line.model)
             ELSE LatestContextModel(SubSeq(lines, 1, Len(lines) - 1))

\* the usage `perModel` holds for `model`
UsageOf(perModel, model) ==
    IF MapHas(perModel, model) THEN MapGet(perModel, model) ELSE EmptyUsage

\* C20: what a token_count record adds goes to exactly one model: the one named
\* on the record, else the one named by the latest earlier turn_context record
\* that names a model, else "gpt-5-codex"; no other model's usage changes.
C20_DeltaGoesToOneModel ==
    (reader.pos >= 1 /\ ReadingLine.kind = "token_count" /\ AddedTotals # EmptyUsage) =>
       LET context == LatestContextModel(SubSeq(rollout, 1, reader.pos - 1))
           expected == IF asNonEmptyString(ReadingLine.model) # NULL
                       THEN asNonEmptyString(ReadingLine.model)
                       ELSE IF context # NULL THEN context ELSE "gpt-5-codex"
       IN  /\ MapHas(reader.st.perModel, expected)
           /\ UsageOf(reader.st.perModel, expected) =
                 [inputTokens |-> UsageOf(ReadBefore.perModel, expected).inputTokens
                                      + AddedTotals.inputTokens,
                  cachedInputTokens |->
                      UsageOf(ReadBefore.perModel, expected).cachedInputTokens
                          + AddedTotals.cachedInputTokens,
                  outputTokens |-> UsageOf(ReadBefore.perModel, expected).outputTokens
                                       + AddedTotals.outputTokens,
                  reasoningOutputTokens |->
                      UsageOf(ReadBefore.perModel, expected).reasoningOutputTokens
                          + AddedTotals.reasoningOutputTokens,
                  totalTokens |-> UsageOf(ReadBefore.perModel, expected).totalTokens
                                      + AddedTotals.totalTokens]
           /\ \A k \in 1..Len(reader.st.perModel) :
                 reader.st.perModel[k].model # expected =>
                    /\ MapHas(ReadBefore.perModel, reader.st.perModel[k].model)
                    /\ reader.st.perModel[k].usage =
                          MapGet(ReadBefore.perModel, reader.st.perModel[k].model)

\* a delta on a record that names no model, read after a turn_context record
\* that names one and a later one that names none
C20_Witness ==
    /\ reader.pos = 3
    /\ rollout[1].kind = "turn_context" /\ asNonEmptyString(rollout[1].model) # NULL
    /\ rollout[2].kind = "turn_context" /\ asNonEmptyString(rollout[2].model) = NULL
    /\ ReadingLine.kind = "token_count" /\ ReadingLine.model = NULL
    /\ AddedTotals # EmptyUsage
    /\ MapHas(reader.st.perModel, rollout[1].model)

\* a TokenUsage with the field names of PerModelSum
AsRaw(usage) ==
    [input_tokens |-> usage.inputTokens,
     cached_input_tokens |-> usage.cachedInputTokens,
     output_tokens |-> usage.outputTokens,
     reasoning_output_tokens |-> usage.reasoningOutputTokens,
     total_tokens |-> usage.totalTokens]

\* C21: for each TokenUsage field the sum over the models of the per-model usage
\* map equals the session-level field, in readHead after every record and in
\* the Claude aggregation of one session's usage messages.
C21_PerModelSumsToSession ==
    /\ PerModelSum(reader.st.perModel) = AsRaw(reader.st.totals)
    /\ aggregate.done => PerModelSum(aggregate.modelUsage) = AsRaw(aggregate.tokenUsage)

\* the token count the primary-model loop compares
PrimaryCount(usage) ==
    IF usage.totalTokens > 0 THEN usage.totalTokens
    ELSE usage.inputTokens + usage.outputTokens

\* `primary` is the first of the models of `modelUsage` with the greatest count
FirstGreatest(modelUsage, primary) ==
    IF Len(modelUsage) = 0 THEN primary = NULL
    ELSE \E k \in 1..Len(modelUsage) :
            /\ modelUsage[k].model = primary
            /\ \A j \in 1..Len(modelUsage) :
                  PrimaryCount(modelUsage[j].usage) <= PrimaryCount(modelUsage[k].usage)
            /\ \A j \in 1..(k - 1) :
                  PrimaryCount(modelUsage[j].usage) < PrimaryCount(modelUsage[k].usage)

\* C22: the primary model of a session is the first model of its per-model usage
\* that has the greatest token count (totalTokens if positive, else inputTokens +
\* outputTokens), for a Codex file and for a Claude session.
C22_PrimaryIsFirstGreatest ==
    /\ reader.primary # <<>> => FirstGreatest(reader.st.perModel, reader.primary[1])
    /\ aggregate.done => FirstGreatest(aggregate.modelUsage, aggregate.model)

(***************************************************************************)
(* SpecPreview: getClaudeSessions over one conversation of up to           *)
(* MaxPreviewMessages records, each answering the one before it.  A user   *)
(* record is typed by the user ("fix"), or is one of the records Claude    *)
(* Code writes with type "user" on its own: the caveat wrapper (isMeta),   *)
(* the echo of a slash command, the echo of a local command's stdout, the  *)
(* "interrupted by user" marker and a tool_result payload.  `text` is what *)
(* summarizeMessage finds in the record's content.                         *)
(***************************************************************************)
MaxPreviewMessages == 3

CaveatText == "Caveat: The messages below were generated by the user while running local commands."
CommandText == "<command-name>/clear</command-name>"
StdoutText == "<local-command-stdout></local-command-stdout>"
InterruptedText == "[Request interrupted by user]"
ToolResultText == "tool_result: ok"

PreviewTurns ==
    {UserTurn, AssistantTurnA}
    \cup {[UserTurn EXCEPT !.text = t] :
            t \in {CaveatText, CommandText, StdoutText, InterruptedText, ToolResultText}}

InitPreview ==
    /\ filter = "claudecode"
    /\ pricing = AllPriced
    /\ codexFiles = <<>>
    /\ IdleCodex
    /\ \E n \in 0..MaxPreviewMessages : \E turns \in [1..n -> PreviewTurns] :
          claudeMessages = Array([i \in 1..n |-> ClaudeRecord(i, i - 1, turns[i], FALSE)])
    /\ IdleClaude
    /\ result = Pending
    /\ options = DefaultOptions
    /\ NoWalk /\ NoPicker /\ FirstInvocation /\ NoUsageRun /\ NoResume

NextPreview == ClaudeParse \/ ClaudeLeaf \/ ClaudeMark \/ ClaudeOrder \/ ClaudePrice

SpecPreview == InitPreview /\ [][NextPreview]_vars

\* the records the preview is required to skip
NotUserAuthored(message) ==
    message.text \in {CaveatText, CommandText, StdoutText, InterruptedText, ToolResultText}

UserAuthored(transcript) ==
    SelectSeq(transcript, LAMBDA m : m.type = "user" /\ ~NotUserAuthored(m))

\* C13: the fork signature (and the preview, which createSessionSummary takes from
\* the same record) of a Claude session is the text of the first user record of its
\* transcript that is not a caveat wrapper, a slash-command echo, a
\* local-command-stdout echo, an interrupted marker or a tool result.
C13_PreviewSkipsEchoes ==
    \A k \in 1..Len(claudeSessions) :
        LET session == claudeSessions[k]
            transcript == buildTranscript(MessagesGet(claudeMessages, session.id),
                                          claudeMessages)
            authored == UserAuthored(transcript)
        IN  session.forkSignature =
                IF Len(authored) = 0 THEN NULL ELSE authored[1].text

(***************************************************************************)
(* Pricing lookups, checked under Spec.                                    *)
(***************************************************************************)
NoRepeats(s) == \A i, j \in 1..Len(s) : s[i] = s[j] => i = j

\* the models that appear in the usage of the sessions a scanner returned
CodexUsageModels(sessions) ==
    UNION {{sessions[k].modelUsage[n].model : n \in 1..Len(sessions[k].modelUsage)} :
              k \in 1..Len(sessions)}

ClaudeUsageModels(sessions) ==
    {m \in UNION {{sessions[k].usageDetails[n].model : n \in 1..Len(sessions[k].usageDetails)} :
                     k \in 1..Len(sessions)} : m # NULL /\ m # ""}

\* C14: in one scanner invocation getModelPricing is called at most once per model
\* name, also when it throws, and exactly once for every model appearing in the
\* usage of a returned session; a failed or empty lookup never aborts the pass.
C14_OneLookupPerModel ==
    /\ NoRepeats(codexLookups) /\ NoRepeats(claudeLookups)
    /\ codexPc = "done" =>
          /\ codexResult.status = "resolved"
          /\ CodexUsageModels(codexResult.sessions) \subseteq Range(codexLookups)
    /\ claudePc = "done" =>
          /\ claudeResult.status = "resolved"
          /\ ClaudeUsageModels(claudeResult.sessions) \subseteq Range(claudeLookups)

(***************************************************************************)
(* SpecScan: getSessions with a scan cap and a limit, over up to           *)
(* MaxScanFiles rollout files.  File i has timestamp i; it is a complete   *)
(* session with usage, a complete session whose usage is all zero, a file  *)
(* without session_meta or without a non-blank user message (which the     *)
(* scan reads and skips), or a complete session with lines that are not    *)
(* JSON before and after its user message.                                 *)
(***************************************************************************)
MaxScanFiles == 3

ScanKinds == {"session", "zero", "incomplete", "nouser", "malformed"}

\* a line on which JSON.parse throws
MalformedLine == [BlankLine EXCEPT !.kind = "malformed"]

ScanFile(i, kind) ==
    [id |-> CodexId(i), timestamp |-> i,
     lines |-> CASE kind = "session" -> RolloutLines("fix", 0, CodexRaw(2, 1, 1, 0))
                 [] kind = "zero" -> RolloutLines("fix", 0, CodexRaw(0, 0, 0, 0))
                 [] kind = "nouser" ->
                        <<MetaLine, UserLine("  "), LastLine(CodexRaw(2, 1, 1, 0))>>
                 [] kind = "malformed" ->
                        <<MalformedLine, MetaLine, MalformedLine, UserLine("fix"),
                          MalformedLine, LastLine(CodexRaw(2, 1, 1, 0))>>
                 [] OTHER -> <<UserLine("fix"), LastLine(CodexRaw(2, 1, 1, 0))>>]

InitScan ==
    /\ filter = "codex"
    /\ pricing = AllPriced
    /\ \E n \in 0..MaxScanFiles : \E kinds \in [1..n -> ScanKinds] :
          codexFiles = Array([i \in 1..n |-> ScanFile(i, kinds[i])])
    /\ IdleCodex
    /\ claudeMessages = <<>>
    /\ IdleClaude
    /\ result = Pending
    /\ options \in [scanCap : 0..(MaxScanFiles + 1), limit : 0..MaxScanFiles]
    /\ NoWalk /\ NoPicker /\ FirstInvocation /\ NoUsageRun /\ NoResume

NextScan == CodexScan \/ CodexMark \/ CodexOrder \/ CodexPrice

SpecScan == InitScan /\ [][NextScan]_vars

\* the files readHead was called on, and those of them that gave a session
FilesRead == SubSeq(codexFiles, 1, codexRead)
SessionFiles(files) ==
    SelectSeq(files, LAMBDA f : Len(CodexSessionOf(f, DEFAULT_HEAD_RECORD_LIMIT)) = 1)
IdsOf(s) == {s[k].id : k \in 1..Len(s)}

\* C15: getSessions calls readHead on at most scanCap files and, with a positive
\* limit, collects and returns at most limit sessions; the scan stops early only at
\* one of the two bounds, and the call then resolves with the sessions of the files
\* read so far (those with usage).
C15_ScanBounds ==
    /\ codexRead <= options.scanCap
    /\ codexPc # "idle" =>
          /\ codexRead <= Len(codexFiles)
          /\ options.limit > 0 => Len(codexSessions) <= options.limit
          /\ codexRead < Len(codexFiles) =>
                \/ codexRead = options.scanCap
                \/ options.limit > 0 /\ Len(SessionFiles(FilesRead)) = options.limit
    /\ codexPc = "mark" => IdsOf(codexSessions) = IdsOf(SessionFiles(FilesRead))
    /\ codexPc = "done" =>
          /\ codexResult.status = "resolved"
          /\ IdsOf(codexResult.sessions) =
                IdsOf(SelectSeq(SessionFiles(FilesRead), LAMBDA f :
                         hasAnyTokenUsage(
                             CodexSessionOf(f, DEFAULT_HEAD_RECORD_LIMIT)[1].tokenUsage)))

\* the limit ended the scan before the cap and before the last file
C15_Witness ==
    /\ codexPc = "done"
    /\ options.limit > 0
    /\ Len(codexResult.sessions) = options.limit
    /\ codexRead < Len(codexFiles)
    /\ codexRead < options.scanCap

\* the file has session metadata and a non-blank user message among the lines
\* that are JSON
CompleteFile(file) ==
    /\ \E k \in 1..Len(file.lines) : file.lines[k].kind = "session_meta"
    /\ \E k \in 1..Len(file.lines) :
          /\ file.lines[k].kind = "user_message"
          /\ file.lines[k].message # NULL
          /\ Trim(file.lines[k].message) # ""

\* the file without the lines that are not JSON
WithoutMalformed(file) ==
    [file EXCEPT !.lines = SelectSeq(@, LAMBDA line : line.kind # "malformed")]

\* one session per complete file, read as if its malformed lines were not there
RECURSIVE SessionsOfComplete(_)
SessionsOfComplete(files) ==
    IF Len(files) = 0 THEN <<>>
    ELSE (IF CompleteFile(files[1])
          THEN CodexSessionOf(WithoutMalformed(files[1]), DEFAULT_HEAD_RECORD_LIMIT)
          ELSE <<>>)
         \o SessionsOfComplete(Tail(files))

\* C26: a malformed line or an incomplete file never aborts the Codex scan: the
\* scan does not fail and stops before the last file only at the scan cap or the
\* limit; the sessions collected are those of the complete files read, one each,
\* each as if the file's malformed lines were absent.
C26_ScanSurvivesBadInput ==
    /\ codexPc # "failed"
    /\ codexPc = "mark" =>
          /\ codexRead < Len(codexFiles) =>
                \/ codexRead = options.scanCap
                \/ options.limit > 0 /\ Len(codexSessions) = options.limit
          /\ codexSessions = SessionsOfComplete(FilesRead)
          /\ Len(codexSessions) = Len(SelectSeq(FilesRead, CompleteFile))

\* after a file without metadata and a file without user message, a file with
\* malformed lines gave a session with its usage
C26_Witness ==
    /\ codexPc = "mark"
    /\ Len(codexFiles) = 3
    /\ ~CompleteFile(codexFiles[1])
    /\ ~CompleteFile(codexFiles[2])
    /\ codexFiles[1] # [codexFiles[2] EXCEPT !.id = codexFiles[1].id, !.timestamp = 1]
    /\ \E k \in 1..Len(codexFiles[3].lines) : codexFiles[3].lines[k].kind = "malformed"
    /\ Len(codexSessions) = 1
    /\ codexSessions[1].id = codexFiles[3].id
    /\ codexSessions[1].tokenUsage.inputTokens = 2
    /\ codexSessions[1].forkSignature = "fix"

(***************************************************************************)
(* SpecRescan: the entry point is called twice over the same files and the *)
(* same pricing answers, for the three filter values ("codex" and          *)
(* "claudecode" are getSessions and getClaudeSessions on their own).       *)
(* Rollout file i has timestamp i and has usage or none; Claude record i   *)
(* has timestamp i and opens a conversation or answers record i - 1.       *)
(* relativeTime, the one field computed from the clock, is not part of a   *)
(* session of the model.                                                   *)
(***************************************************************************)
MaxRescanFiles == 2
MaxRescanMessages == 2

RescanUsages == {CodexRaw(2, 1, 1, 0), CodexRaw(0, 0, 0, 0)}

InitRescan ==
    /\ filter \in {"all", "codex", "claudecode"}
    /\ pricing \in {AllPriced, SomeUnpriced}
    /\ \E n \in 0..MaxRescanFiles : \E usages \in [1..n -> RescanUsages] :
          /\ ~CallsCodex(filter) => n = 0
          /\ codexFiles = Array([i \in 1..n |-> MergeFile(i, [usage |-> usages[i]])])
    /\ IdleCodex
    /\ \E n \in 0..MaxRescanMessages :
          \E shapes \in {f \in [1..n -> [parent : 0..n, turn : ClaudeTurns]] : Threaded(f)} :
             /\ ~CallsClaude(filter) => n = 0
             /\ claudeMessages = Array([i \in 1..n |->
                   ClaudeRecord(i, shapes[i].parent, shapes[i].turn, FALSE)])
    /\ IdleClaude
    /\ result = Pending
    /\ options = DefaultOptions
    /\ NoWalk /\ NoPicker /\ FirstInvocation /\ NoUsageRun /\ NoResume

NextRescan ==
    \/ CodexScan \/ CodexMark \/ CodexOrder \/ CodexPrice
    \/ ClaudeParse \/ ClaudeLeaf \/ ClaudeMark \/ ClaudeOrder \/ ClaudePrice
    \/ Return \/ Rescan

SpecRescan == InitRescan /\ [][NextRescan]_vars

MaxDeliveries == 2

DEFAULT_SIGNALS == <<"SIGINT", "SIGTERM", "SIGHUP">>

SIGNAL_EXIT_CODES ==
    Table([signal \in {"SIGHUP", "SIGINT", "SIGQUIT", "SIGILL", "SIGTRAP", "SIGABRT",
                       "SIGBUS", "SIGFPE", "SIGKILL", "SIGUSR1", "SIGSEGV", "SIGUSR2",
                       "SIGPIPE", "SIGALRM", "SIGTERM"} |->
        CASE signal = "SIGHUP" -> 129 [] signal = "SIGINT" -> 130
          [] signal = "SIGQUIT" -> 131 [] signal = "SIGILL" -> 132
          [] signal = "SIGTRAP" -> 133 [] signal = "SIGABRT" -> 134
          [] signal = "SIGBUS" -> 135 [] signal = "SIGFPE" -> 136
          [] signal = "SIGKILL" -> 137 [] signal = "SIGUSR1" -> 138
          [] signal = "SIGSEGV" -> 139 [] signal = "SIGUSR2" -> 140
          [] signal = "SIGPIPE" -> 141 [] signal = "SIGALRM" -> 142
          [] OTHER -> 143])

\* SIGNAL_EXIT_CODES[signal] ?? 1
exitCodeFromSignal(signal) ==
    IF signal \in DOMAIN SIGNAL_EXIT_CODES THEN SIGNAL_EXIT_CODES[signal] ELSE 1

\* listenerMap.set(signal, handler): a key already in the Map keeps its place
\* and takes the new value
RECURSIVE ListenerMapSet(_, _, _)
ListenerMapSet(map, signal, handler) ==
    IF Len(map) = 0 THEN <<[signal |-> signal, handler |-> handler]>>
    ELSE IF map[1].signal = signal
         THEN <<[signal |-> signal, handler |-> handler]>> \o Tail(map)
         ELSE <<map[1]>> \o ListenerMapSet(Tail(map), signal, handler)

\* the loop `for (const signal of forwardSignals)`, from its i-th iteration on:
\* listenerMap.set(signal, handler); process.on(signal, handler)
RECURSIVE RegisterHandlers(_, _, _, _)
RegisterHandlers(forwardSignals, i, map, onProcess) ==
    IF i > Len(forwardSignals) THEN [listenerMap |-> map, listeners |-> onProcess]
    ELSE RegisterHandlers(forwardSignals, i + 1,
                          ListenerMapSet(map, forwardSignals[i], i),
                          Append(onProcess, [signal |-> forwardSignals[i], handler |-> i]))

\* process.off(signal, handler) for every entry of listenerMap
RECURSIVE cleanup(_, _)
cleanup(map, onProcess) ==
    IF Len(map) = 0 THEN onProcess
    ELSE cleanup(Tail(map), SelectSeq(onProcess, LAMBDA l : l # map[1]))

\* child.kill(signal) called from a handler.  "sent": the signal went out and
\* Node set child.killed; "unsent": kill returned false; "threw": kill threw and
\* the handler swallowed it.
Kill(c, signal, outcome) ==
    [c EXCEPT !.kills = Append(@, signal), !.killed = @ \/ outcome = "sent"]

\* the handler registered for `signal`
Handler(build, c, signal, outcome) ==
    IF build = "resume.ts" /\ c.killed THEN c ELSE Kill(c, signal, outcome)

\* `process` emits `signal`: its listeners for that signal run in the order they
\* were added
RECURSIVE Emit(_, _, _, _, _)
Emit(onProcess, build, c, signal, outcome) ==
    IF Len(onProcess) = 0 THEN c
    ELSE Emit(Tail(onProcess), build,
              IF onProcess[1].signal = signal /\ onProcess[1].handler # 0
              THEN Handler(build, c, signal, outcome) ELSE c,
              signal, outcome)

DeliveredSignals == {"SIGINT", "SIGTERM", "SIGQUIT"}

\* resumeSession(sessionId, options) up to the return of the promise: nothing
\* is awaited before the handlers are on `process`
ResumeStart ==
    /\ resume.pc = "idle"
    /\ resume.sessionId # ""
    /\ LET registered == RegisterHandlers(resume.forwardSignals, 1, <<>>, listeners)
       IN  /\ listeners' = registered.listeners
           /\ resume' = [resume EXCEPT !.pc = "waiting",
                                       !.listenerMap = registered.listenerMap,
                                       !.onError = TRUE, !.onExit = TRUE]
    /\ child' = [child EXCEPT !.state = "running"]
    /\ UNCHANGED <<frontVars, filter, pricing, codexVars, claudeVars, result, options, rescanVars,
                   usageVars>>

\* `if (!trimmedId) throw new Error('Session id is required ...')`
ResumeThrow ==
    /\ resume.pc = "idle"
    /\ resume.sessionId = ""
    /\ resume' = [resume EXCEPT !.pc = "rejected"]
    /\ UNCHANGED <<frontVars, filter, pricing, codexVars, claudeVars, result, options, rescanVars,
                   usageVars, child, listeners>>

\* a signal arrives at the process while the child runs
Deliver ==
    /\ child.state = "running"
    /\ Len(resume.delivered) < MaxDeliveries
    /\ \E signal \in DeliveredSignals : \E outcome \in {"sent", "unsent", "threw"} :
          /\ child' = Emit(listeners, resume.build, child, signal, outcome)
          /\ resume' = [resume EXCEPT !.delivered = Append(@, signal)]
    /\ UNCHANGED <<frontVars, filter, pricing, codexVars, claudeVars, result, options, rescanVars,
                   usageVars, listeners>>

\* child.once('exit', (code, signal) => ...): cleanup, then resolve.  A code
\* is Num(n), a null code is <<>>.
ChildExit ==
    /\ child.state = "running"
    /\ resume.onExit
    /\ \E exit \in {[code |-> Num(0), signal |-> NULL], [code |-> Num(3), signal |-> NULL],
                    [code |-> <<>>, signal |-> NULL], [code |-> <<>>, signal |-> "SIGTERM"],
                    [code |-> <<>>, signal |-> "SIGINT"],
                    [code |-> <<>>, signal |-> "SIGXCPU"]} :
          /\ child' = [child EXCEPT !.state = "exited"]
          /\ listeners' = cleanup(resume.listenerMap, listeners)
          /\ resume' = [resume EXCEPT
                           !.onExit = FALSE,
                           !.pc = IF @ = "waiting" THEN "resolved" ELSE @,
                           !.code = IF resume.pc # "waiting" THEN @
                                    ELSE IF exit.signal # NULL
                                         THEN Num(exitCodeFromSignal(exit.signal))
                                    ELSE IF exit.code = <<>> THEN Num(0)
                                    ELSE exit.code]
    /\ UNCHANGED <<frontVars, filter, pricing, codexVars, claudeVars, result, options, rescanVars,
                   usageVars>>

\* child.once('error', error => ...): cleanup, then reject.  The child could
\* not be spawned.
ChildError ==
    /\ child.state = "running"
    /\ resume.onError
    /\ resume.delivered = <<>>
    /\ child' = [child EXCEPT !.state = "failed"]
    /\ listeners' = cleanup(resume.listenerMap, listeners)
    /\ resume' = [resume EXCEPT !.onError = FALSE,
                                !.pc = IF @ = "waiting" THEN "rejected" ELSE @]
    /\ UNCHANGED <<frontVars, filter, pricing, codexVars, claudeVars, result, options, rescanVars,
                   usageVars>>

ForwardLists == {DEFAULT_SIGNALS, <<"SIGINT">>, <<"SIGINT", "SIGINT">>, <<>>}

InitResume ==
    /\ filter = "all"
    /\ pricing = AllPriced
    /\ codexFiles = <<>>
    /\ IdleCodex
    /\ claudeMessages = <<>>
    /\ IdleClaude
    /\ result = Pending
    /\ options = DefaultOptions
    /\ NoWalk /\ NoPicker /\ FirstInvocation /\ NoUsageRun
    /\ child = [state |-> "none", killed |-> FALSE, kills |-> <<>>]
    /\ listeners \in {<<>>, <<[signal |-> "SIGINT", handler |-> 0]>>}
    /\ resume \in {[pc |-> "idle", build |-> build, sessionId |-> sessionId,
                    forwardSignals |-> forwardSignals, listenerMap |-> <<>>,
                    onError |-> FALSE, onExit |-> FALSE, before |-> listeners,
                    delivered |-> <<>>, code |-> <<>>] :
                       build \in {"part_004", "resume.ts"},
                       sessionId \in {"", "session-456"},
                       forwardSignals \in ForwardLists}

NextResume == ResumeStart \/ ResumeThrow \/ Deliver \/ ChildExit \/ ChildError

SpecResume == InitResume /\ [][NextResume]_vars

\* the deliveries of `signals` among `delivered`
Forwarded(delivered, signals) ==
    SelectSeq(delivered, LAMBDA signal : \E i \in DOMAIN signals : signals[i] = signal)

\* C17: every delivery of a forwarded signal while the child runs is one
\* child.kill call with that signal, repeated deliveries included: the kill
\* calls made are the forwarded signals delivered, in order.
C17_EveryDeliveryIsOneKill ==
    resume.pc # "idle" => child.kills = Forwarded(resume.delivered, resume.forwardSignals)

\* the number of listeners `process` has for `signal`
ListenerCount(onProcess, signal) ==
    Len(SelectSeq(onProcess, LAMBDA l : l.signal = signal))

\* C18: one handler per forwarded signal while the promise is pending; once it
\* has settled the listener count of every forwarded signal is what it was
\* before the call, and an exit by signal resolved to the mapped code.
C18_ListenersRestored ==
    \A i \in DOMAIN resume.forwardSignals :
       LET signal == resume.forwardSignals[i]
       IN  /\ resume.pc = "waiting" =>
                 ListenerCount(listeners, signal) = ListenerCount(resume.before, signal) + 1
           /\ resume.pc \in {"resolved", "rejected"} =>
                 ListenerCount(listeners, signal) = ListenerCount(resume.before, signal)

(***************************************************************************)
(* Fork signature of a Codex session against the first user message of its *)
(* file (SpecCodex).                                                       *)
(***************************************************************************)
\* the first user message readHead found in the file the session came from
FirstUserMessageOf(session) ==
    LET i == CHOOSE i \in 1..Len(codexFiles) : codexFiles[i].id = session.id
    IN  readHead(codexFiles[i].lines, DEFAULT_HEAD_RECORD_LIMIT).firstUserMessage

\* C23: every admitted Codex session has as fork signature its first user
\* message, trimmed, wherever in the file that message occurs, so that two
\* sessions with the same first user message are marked as one fork group.
C23_SignatureIsFirstUserMessage ==
    Marked =>
      \A i \in 1..Len(codexSessions) :
         /\ codexSessions[i].forkSignature = Trim(FirstUserMessageOf(codexSessions[i]))
         /\ \A j \in 1..Len(codexSessions) :
               (j # i /\ Trim(FirstUserMessageOf(codexSessions[j]))
                           = Trim(FirstUserMessageOf(codexSessions[i])))
                   => InSameGroup(codexSessions[i], codexSessions[j])

(***************************************************************************)
(* Leaves of the parent-pointer graph (SpecClaude).                        *)
(***************************************************************************)
\* no other message of the scanned set records the uuid of `message` as parent
NoOtherNamesAsParent(messages, message) ==
    ~\E k \in 1..Len(messages) :
        messages[k].uuid # message.uuid /\ messages[k].parentUuid = message.uuid

\* C24: the leaves getClaudeSessions goes on with are the messages that no
\* other message of the scanned set records as parent, and only those.
C24_LeafIffNoOtherChild ==
    [][(claudePc = "idle" /\ claudePc' = "leaves") =>
          \A k \in 1..Len(claudeMessages) :
             NoOtherNamesAsParent(claudeMessages, claudeMessages[k])
                <=> (\E n \in 1..Len(claudeLeaves') : claudeLeaves'[n] = claudeMessages[k])]_vars

(***************************************************************************)
(* SpecWalk: buildTranscript on its own, one iteration of its while loop   *)
(* per step, over every parent-pointer graph of up to MaxWalkMessages      *)
(* messages: the parent of a message is null, any message of the graph     *)
(* (itself and later ones included, so the graph may have cycles) or an id *)
(* that is not in the graph.  The walk starts from any message.            *)
(***************************************************************************)
MaxWalkMessages == 3

\* the loop body without `if (visited.has(current.uuid)) break`
WalkIterationUnguarded(w, messages) ==
    IF ~w.hasCurrent THEN [w EXCEPT !.pc = "done"]
    ELSE
      LET current == MessagesGet(messages, w.current)
          grown == [w EXCEPT !.visited = @ \cup {current.uuid},
                             !.transcript = <<current>> \o @,
                             !.iterations = @ + 1]
          parentUuid == current.parentUuid
      IN  IF parentUuid = NULL \/ parentUuid = "" THEN [grown EXCEPT !.pc = "done"]
          ELSE IF MessagesHas(messages, parentUuid)
          THEN [grown EXCEPT !.current = parentUuid]
          ELSE [grown EXCEPT !.hasCurrent = FALSE]

\* the test of `while (current)` and one run of the loop body
WalkIteration(w, messages) ==
    IF ~w.hasCurrent THEN [w EXCEPT !.pc = "done"]
    ELSE
      LET current == MessagesGet(messages, w.current)
          grown == [w EXCEPT !.visited = @ \cup {current.uuid},
                             !.transcript = <<current>> \o @,
                             !.iterations = @ + 1]
          parentUuid == current.parentUuid
      IN  IF current.uuid \in w.visited
          THEN [w EXCEPT !.pc = "done", !.iterations = @ + 1]
          ELSE IF parentUuid = NULL \/ parentUuid = "" THEN [grown EXCEPT !.pc = "done"]
          ELSE IF MessagesHas(messages, parentUuid)
          THEN [grown EXCEPT !.current = parentUuid]
          ELSE [grown EXCEPT !.hasCurrent = FALSE]

WalkStep ==
    /\ walk.pc = "walking"
    /\ walk' = WalkIteration(walk, claudeMessages)
    /\ UNCHANGED <<filter, pricing, codexVars, claudeVars, result, options, rescanVars,
                   usageVars, resumeVars, picker, cli>>

InitWalk ==
    /\ filter = "all"
    /\ pricing = AllPriced
    /\ codexFiles = <<>>
    /\ IdleCodex
    /\ \E n \in 1..MaxWalkMessages : \E parents \in [1..n -> 0..(n + 1)] :
          /\ claudeMessages =
                Array([i \in 1..n |-> ClaudeRecord(i, parents[i], UserTurn, FALSE)])
          /\ \E leaf \in 1..n :
                walk = [pc |-> "walking", leaf |-> ClaudeUuid(leaf), hasCurrent |-> TRUE,
                        current |-> ClaudeUuid(leaf), visited |-> {},
                        transcript |-> <<>>, iterations |-> 0]
    /\ IdleClaude
    /\ result = Pending
    /\ options = DefaultOptions
    /\ NoPicker /\ FirstInvocation /\ NoUsageRun /\ NoResume

NextWalk == WalkStep

SpecWalk == InitWalk /\ [][NextWalk]_vars

\* C25: buildTranscript runs its loop at most once per message and once more,
\* never takes a message twice, and ends with a non-empty transcript that ends
\* with the leaf, each message the parent of the next, whose first message has
\* no parent, a parent missing from the graph, or a parent already in the
\* transcript.
C25_WalkEndsWithChainToLeaf ==
    /\ walk.iterations <= Len(claudeMessages) + 1
    /\ walk.pc = "walking" => walk.iterations <= Len(claudeMessages)
    /\ \A i, j \in 1..Len(walk.transcript) :
          i # j => walk.transcript[i].uuid # walk.transcript[j].uuid
    /\ walk.pc = "done" =>
          LET transcript == walk.transcript
              first == transcript[1]
          IN  /\ Len(transcript) > 0
              /\ transcript[Len(transcript)].uuid = walk.leaf
              /\ \A i \in 1..(Len(transcript) - 1) :
                    transcript[i + 1].parentUuid = transcript[i].uuid
              /\ \/ first.parentUuid = NULL
                 \/ ~MessagesHas(claudeMessages, first.parentUuid)
                 \/ \E i \in 1..Len(transcript) : transcript[i].uuid = first.parentUuid
              /\ transcript = buildTranscript(MessagesGet(claudeMessages, walk.leaf),
                                              claudeMessages)

\* a walk that was cut off at a message it had already taken: the leaf leads
\* into a cycle it is not part of
C25_Witness ==
    /\ walk.pc = "done"
    /\ Len(walk.transcript) = 3
    /\ walk.transcript[1].parentUuid = walk.transcript[2].uuid
    /\ walk.transcript[3].uuid = walk.leaf

(***************************************************************************)
(* Fork blocks in the results of the two scanners, checked under Spec.     *)
(***************************************************************************)
\* the members of result r that are the base of the fork group of session s
BasesOf(r, s) ==
    {k \in 1..Len(r.sessions) :
        /\ InSameGroup(r.sessions[k], s)
        /\ r.sessions[k].branchMarker = MarkerBase
        /\ ~r.sessions[k].isFork}

\* C27 (as stated): in the result of getSessions and of getClaudeSessions every
\* session with fork flag true has a branch-start or branch-continuation marker
\* and comes with exactly one base session of its fork group in the same result.
C27_ForkComesWithItsBase ==
    \A r \in {c \in {codexResult, claudeResult} : c.status = "resolved"} :
      \A k \in 1..Len(r.sessions) :
        r.sessions[k].isFork =>
          /\ r.sessions[k].branchMarker \in {MarkerBranchStart, MarkerBranchMid}
          /\ Cardinality(BasesOf(r, r.sessions[k])) = 1

(***************************************************************************)
(* Codex usage against the running total of the file, checked under        *)
(* SpecUsage.                                                              *)
(***************************************************************************)
\* The running total after the token_count events of `lines`, and whether every
\* event is consistent with it: a cumulative snapshot is the usage up to and
\* including its event (never below the total before it), an incremental snapshot
\* is the usage since the previous event (never negative), and an event carrying
\* both has the second equal to the first minus the total before it.
RECURSIVE RunningTotal(_)
RunningTotal(lines) ==
    IF Len(lines) = 0
    THEN [consistent |-> TRUE, input |-> 0, output |-> 0, reasoning |-> 0]
    ELSE
      LET before == RunningTotal(SubSeq(lines, 1, Len(lines) - 1))
          line == lines[Len(lines)]
          last == normalizeRawUsage(line.last)
          total == normalizeRawUsage(line.total)
          after ==
              IF line.hasTotal
              THEN [input |-> total.input_tokens, output |-> total.output_tokens,
                    reasoning |-> total.reasoning_output_tokens]
              ELSE [input |-> before.input + last.input_tokens,
                    output |-> before.output + last.output_tokens,
                    reasoning |-> before.reasoning + last.reasoning_output_tokens]
      IN  IF line.kind # "token_count" \/ (~line.hasLast /\ ~line.hasTotal) THEN before
          ELSE [consistent |->
                    /\ before.consistent
                    /\ after.input >= before.input
                    /\ after.output >= before.output
                    /\ after.reasoning >= before.reasoning
                    /\ line.hasLast =>
                          /\ after.input = before.input + last.input_tokens
                          /\ after.output = before.output + last.output_tokens
                          /\ after.reasoning =
                                before.reasoning + last.reasoning_output_tokens,
                input |-> after.input,
                output |-> after.output,
                reasoning |-> after.reasoning]

\* the records readHead has consumed
LinesRead == SubSeq(rollout, 1, reader.pos)

\* C28 (as stated): when every token_count event read is consistent with one
\* running total, the accumulated inputTokens, outputTokens and
\* reasoningOutputTokens equal the running total after the last event, whichever
\* snapshots the events carry.
C28_TotalsAreTheRunningTotal ==
    RunningTotal(LinesRead).consistent =>
        /\ reader.st.totals.inputTokens = RunningTotal(LinesRead).input
        /\ reader.st.totals.outputTokens = RunningTotal(LinesRead).output
        /\ reader.st.totals.reasoningOutputTokens = RunningTotal(LinesRead).reasoning

(***************************************************************************)
(* SpecPicker: the command-line entry point.  main renders SessionPicker   *)
(* over a fixed list of up to MaxSessions sessions in a terminal leaving   *)
(* 1..MaxRows rows for the list, waits for it to exit, and then resumes    *)
(* the selected session through the resume-signal file or through          *)
(* resumeSession.  The environment holds ANY_AGENT_RESUME_SIGNAL_PATH      *)
(* (unset, empty or a path, writable or not) and                           *)
(* ANY_AGENT_RESUME_SIGNAL_CODE (unset or one of the strings below).       *)
(* picker holds the component's state, cli the variables of main.          *)
(***************************************************************************)
MaxSessions == 3
MaxRows == 2

DEFAULT_RESUME_SIGNAL_CODE == 95

\* sanitizeWorkingDirectory; undefined is NULL
sanitizeWorkingDirectory(value) ==
    IF value = NULL THEN NULL
    ELSE IF Trim(value) = "" THEN NULL ELSE Trim(value)

resolveSessionWorkingDirectory(session) ==
    LET cwdValue == sanitizeWorkingDirectory(session.meta.cwd)
        projectPathValue == sanitizeWorkingDirectory(session.meta.projectPath)
    IN  IF cwdValue # NULL THEN cwdValue
        ELSE IF projectPathValue # NULL THEN projectPathValue
        ELSE NULL

\* Number.parseInt(raw, 10) on the strings of SignalCodes: <<>> is NaN
parseInt(raw) ==
    CASE raw = "0" -> Num(0)
      [] raw = "7" -> Num(7)
      [] raw = "255" -> Num(255)
      [] raw = "256" -> Num(256)
      [] raw = "-1" -> Num(-1)
      [] raw = " 42" -> Num(42)
      [] raw = "12abc" -> Num(12)
      [] OTHER -> <<>>

\* parseResumeSignalExitCode that returns whatever integer was parsed
parseResumeSignalExitCodeAnyInteger(raw) ==
    IF raw = NULL \/ raw = "" THEN DEFAULT_RESUME_SIGNAL_CODE
    ELSE IF parseInt(raw) # <<>> THEN parseInt(raw)[1]
    ELSE DEFAULT_RESUME_SIGNAL_CODE

\* parseResumeSignalExitCode, raw = process.env[RESUME_SIGNAL_CODE_ENV]
parseResumeSignalExitCode(raw) ==
    IF raw = NULL \/ raw = "" THEN DEFAULT_RESUME_SIGNAL_CODE
    ELSE LET parsed == parseInt(raw)
         IN  IF parsed # <<>> /\ parsed[1] >= 0 /\ parsed[1] <= 255 THEN parsed[1]
             ELSE DEFAULT_RESUME_SIGNAL_CODE

\* signalResumeRequest: <<>> is null; `written` is what writeFile left in the file
signalResumeRequest(payload, env, writable) ==
    IF env.signalPath = NULL \/ env.signalPath = ""
    THEN [code |-> <<>>, written |-> <<>>]
    ELSE IF writable
    THEN [code |-> Num(parseResumeSignalExitCode(env.signalCode)), written |-> <<payload>>]
    ELSE [code |-> <<>>, written |-> <<>>]

clampOffset(value, maxOffset) ==
    IF maxOffset <= 0 THEN 0
    ELSE IF value < 0 THEN 0
    ELSE IF value > maxOffset THEN maxOffset
    ELSE value

hasSessions(p) == Len(p.sessions) > 0

limitOf(p) ==
    IF hasSessions(p) THEN Max(Min(p.availableHeight, Len(p.sessions)), 1) ELSE 0

maxOffsetOf(p) == Max(0, Len(p.sessions) - limitOf(p))

\* key.upArrow || input === "k"
PickerUp ==
    /\ picker.pc = "open"
    /\ hasSessions(picker)
    /\ LET next == (picker.highlightedIndex - 1 + Len(picker.sessions))
                      % Len(picker.sessions)
       IN  picker' = [picker EXCEPT
              !.highlightedIndex = next,
              !.offset = clampOffset(IF next < @ THEN next ELSE @, maxOffsetOf(picker))]
    /\ UNCHANGED <<filter, pricing, codexVars, claudeVars, result, options, rescanVars,
                   usageVars, resumeVars, walk, cli>>

\* key.downArrow || input === "j"
PickerDown ==
    /\ picker.pc = "open"
    /\ hasSessions(picker)
    /\ LET next == (picker.highlightedIndex + 1) % Len(picker.sessions)
       IN  picker' = [picker EXCEPT
              !.highlightedIndex = next,
              !.offset = IF next >= @ + limitOf(picker)
                         THEN clampOffset(next - limitOf(picker) + 1, maxOffsetOf(picker))
                         ELSE @]
    /\ UNCHANGED <<filter, pricing, codexVars, claudeVars, result, options, rescanVars,
                   usageVars, resumeVars, walk, cli>>

\* key.tab
PickerTab ==
    /\ picker.pc = "open"
    /\ hasSessions(picker)
    /\ picker' = [picker EXCEPT !.yoloMode = ~@]
    /\ UNCHANGED <<filter, pricing, codexVars, claudeVars, result, options, rescanVars,
                   usageVars, resumeVars, walk, cli>>

\* key.return: onResume(session, yoloMode), which main's callback stores, then
\* exit(); without sessions exit() alone
PickerReturn ==
    /\ picker.pc = "open"
    /\ picker' = [picker EXCEPT !.pc = "exited"]
    /\ cli' = IF hasSessions(picker)
              THEN [cli EXCEPT !.selected =
                       <<[session |-> picker.sessions[picker.highlightedIndex + 1],
                          yoloMode |-> picker.yoloMode]>>]
              ELSE cli
    /\ UNCHANGED <<filter, pricing, codexVars, claudeVars, result, options, rescanVars,
                   usageVars, resumeVars, walk>>

\* main from `await waitUntilExit()` to the call of resumeSession
MainDispatch ==
    /\ picker.pc = "exited"
    /\ cli.pc = "waiting"
    /\ IF cli.selected = <<>>
       THEN cli' = [cli EXCEPT !.pc = "done"]
       ELSE
         LET sessionToResume == cli.selected[1].session
             resumePayload ==
                 [resumeTarget |-> sessionToResume.resumeTarget,
                  source |-> sessionToResume.source,
                  cwd |-> resolveSessionWorkingDirectory(sessionToResume),
                  yoloMode |-> cli.selected[1].yoloMode]
             signal == signalResumeRequest(resumePayload, cli.env, cli.writable)
         IN  IF signal.code # <<>>
             THEN cli' = [cli EXCEPT !.pc = "done",
                                     !.written = signal.written,
                                     !.exitCode = signal.code]
             ELSE cli' = [cli EXCEPT
                     !.pc = "resuming",
                     !.resumeCalls = Append(@,
                         [resumeTarget |-> resumePayload.resumeTarget,
                          source |-> resumePayload.source,
                          cwd |-> resumePayload.cwd,
                          yoloMode |-> resumePayload.yoloMode])]
    /\ UNCHANGED <<filter, pricing, codexVars, claudeVars, result, options, rescanVars,
                   usageVars, resumeVars, walk, picker>>

\* the exit codes resumeSession resolves with in the model
ResumeExitCodes == {0, 1, 130}

\* resumeSession resolves: process.exitCode = exitCode
MainResumed ==
    /\ cli.pc = "resuming"
    /\ \E exitCode \in ResumeExitCodes :
          cli' = [cli EXCEPT !.pc = "done", !.exitCode = Num(exitCode),
                             !.resumeResult = Num(exitCode)]
    /\ UNCHANGED <<filter, pricing, codexVars, claudeVars, result, options, rescanVars,
                   usageVars, resumeVars, walk, picker>>

\* resumeSession rejects: the catch block of main sets process.exitCode = 1
MainResumeRejected ==
    /\ cli.pc = "resuming"
    /\ cli' = [cli EXCEPT !.pc = "done", !.exitCode = Num(1)]
    /\ UNCHANGED <<filter, pricing, codexVars, claudeVars, result, options, rescanVars,
                   usageVars, resumeVars, walk, picker>>

PickerMeta(i) ==
    CASE i = 1 -> [cwd |-> " /w ", projectPath |-> NULL]
      [] i = 2 -> [cwd |-> "  ", projectPath |-> "/p"]
      [] i = 3 -> [cwd |-> NULL, projectPath |-> NULL]
      [] OTHER -> [cwd |-> "/w", projectPath |-> "/p"]

PickerSession(i) ==
    [id |-> CodexId(i), resumeTarget |-> CodexId(i),
     source |-> IF i % 2 = 1 THEN "codex" ELSE "claude-code",
     meta |-> PickerMeta(i)]

SignalPaths == {NULL, "", "/tmp/resume"}
SignalCodes == {NULL, "", "0", "7", "255", "256", "-1", " 42", "12abc", "abc"}

InitPicker ==
    /\ filter = "all"
    /\ pricing = AllPriced
    /\ codexFiles = <<>>
    /\ IdleCodex
    /\ claudeMessages = <<>>
    /\ IdleClaude
    /\ result = Pending
    /\ options = DefaultOptions
    /\ NoWalk /\ FirstInvocation /\ NoUsageRun /\ NoResume
    /\ \E n \in 0..MaxSessions : \E availableHeight \in 1..MaxRows :
       \E initialYoloMode \in BOOLEAN :
          picker = [pc |-> "open",
                    sessions |-> Array([i \in 1..n |-> PickerSession(i)]),
                    availableHeight |-> availableHeight,
                    highlightedIndex |-> 0, offset |-> 0,
                    yoloMode |-> initialYoloMode]
    /\ \E signalPath \in SignalPaths : \E signalCode \in SignalCodes :
       \E writable \in BOOLEAN :
          /\ signalPath = NULL => (signalCode = NULL /\ writable)
          /\ signalPath = "" => ~writable
          /\ cli = [pc |-> "waiting",
                    env |-> [signalPath |-> signalPath, signalCode |-> signalCode],
                    writable |-> writable,
                    selected |-> <<>>, written |-> <<>>, resumeCalls |-> <<>>,
                    resumeResult |-> <<>>, exitCode |-> <<>>]

NextPicker ==
    \/ PickerUp \/ PickerDown \/ PickerTab \/ PickerReturn
    \/ MainDispatch \/ MainResumed \/ MainResumeRejected

SpecPicker == InitPicker /\ [][NextPicker]_vars

\* C29 (as stated): while the picker is open over a non-empty list, the
\* highlighted index h and the offset o satisfy 0 <= h < n, 0 <= o <= n - limit
\* and o <= h < o + limit: the highlighted row is one of the rendered rows.
C29_HighlightedRowIsRendered ==
    (picker.pc = "open" /\ hasSessions(picker)) =>
        /\ 0 <= picker.highlightedIndex
        /\ picker.highlightedIndex < Len(picker.sessions)
        /\ 0 <= picker.offset
        /\ picker.offset <= Len(picker.sessions) - limitOf(picker)
        /\ picker.offset <= picker.highlightedIndex
        /\ picker.highlightedIndex < picker.offset + limitOf(picker)

\* the row highlighted when Return was pressed, and the payload main builds for it
HighlightedSession == picker.sessions[picker.highlightedIndex + 1]

ExpectedPayload ==
    [resumeTarget |-> HighlightedSession.resumeTarget,
     source |-> HighlightedSession.source,
     cwd |-> resolveSessionWorkingDirectory(HighlightedSession),
     yoloMode |-> picker.yoloMode]

\* ANY_AGENT_RESUME_SIGNAL_CODE when it parses to an integer in 0..255, else 95
ExpectedSignalCode ==
    LET raw == cli.env.signalCode
    IN  IF raw # NULL /\ parseInt(raw) # <<>> /\ parseInt(raw)[1] \in 0..255
        THEN parseInt(raw)[1]
        ELSE 95

\* ANY_AGENT_RESUME_SIGNAL_PATH is set and the file can be written
SignalDelivered == cli.env.signalPath # NULL /\ cli.writable

\* C30: when the picker has exited main takes at most one resume path.  With no
\* session selected nothing is written, resumeSession is not called and the exit
\* code is left alone.  With a session selected and the signal path set and
\* written, the file holds the payload of the highlighted session, the exit code
\* is the resume-signal code and resumeSession is never called.  Otherwise
\* resumeSession is called exactly once with the session's resumeTarget, source,
\* working directory and yolo mode, nothing is written, and the exit code is the
\* one resumeSession resolved with (1 when it rejected).
C30_AtMostOneResumePath ==
    /\ cli.pc = "waiting" =>
          cli.written = <<>> /\ cli.resumeCalls = <<>> /\ cli.exitCode = <<>>
    /\ cli.pc \in {"resuming", "done"} =>
          IF ~hasSessions(picker)
          THEN /\ cli.pc = "done"
               /\ cli.selected = <<>>
               /\ cli.written = <<>>
               /\ cli.resumeCalls = <<>>
               /\ cli.exitCode = <<>>
          ELSE IF SignalDelivered
          THEN /\ cli.pc = "done"
               /\ cli.written = <<ExpectedPayload>>
               /\ cli.resumeCalls = <<>>
               /\ cli.exitCode = Num(ExpectedSignalCode)
          ELSE /\ cli.written = <<>>
               /\ cli.resumeCalls = <<ExpectedPayload>>
               /\ cli.pc = "resuming" => cli.exitCode = <<>>
               /\ cli.pc = "done" =>
                     cli.exitCode = (IF cli.resumeResult # <<>>
                                     THEN cli.resumeResult ELSE Num(1))

\* the second row was chosen after a Tab, the payload went to the signal file and
\* the out-of-range code 256 gave exit code 95
C30_Witness ==
    /\ cli.pc = "done"
    /\ picker.highlightedIndex = 1
    /\ cli.env.signalCode = "256"
    /\ cli.written = <<[resumeTarget |-> "c2", source |-> "claude-code", cwd |-> "/p",
                        yoloMode |-> TRUE]>>
    /\ cli.resumeCalls = <<>>
    /\ cli.exitCode = Num(95)
====
